---- MODULE Spec2Model ----
(***************************************************************************)
(* Copy-on-write B-tree of redb (src/src/btree.rs): the page layouts, the  *)
(* entry order, lookup, insert, delete with sibling repair, and the range  *)
(* iterator, over a page store that only ever grows.                       *)
(*                                                                         *)
(* Rust indices are 0-based and are kept 0-based in operator arguments;    *)
(* the sequences that hold slots are 1-based, so slot n is seq[n + 1].     *)
(* Option<T> is a sequence of length 0 (None) or 1 (Some).                 *)
(***************************************************************************)
EXTENDS Integers, Sequences, FiniteSets, TLC

\* ------------------------------------------------------------------ bounds
\* A behaviour performs at most MaxOps operations on the database it
\* starts on.
MaxOps == 3

\* ------------------------------------------------------- program constants
BTREE_ORDER == 3
LEAF == 1
INTERNAL == 2

None == <<>>
Some(x) == <<x>>
IsSome(o) == Len(o) > 0
Unwrap(o) == o[1]

Less == 0 - 1
Equal == 0
Greater == 1

\* ------------------------------------------------------------------ order
\* Vec<u8> / [u8] ordering of the standard library: bytewise lexicographic.
RECURSIVE bytes_cmp(_, _)
bytes_cmp(a, b) ==
  IF a = <<>> THEN (IF b = <<>> THEN Equal ELSE Less)
  ELSE IF b = <<>> THEN Greater
  ELSE IF a[1] < b[1] THEN Less
  ELSE IF a[1] > b[1] THEN Greater
  ELSE bytes_cmp(Tail(a), Tail(b))

\* K::compare of the key type; the tables modelled here are keyed by [u8],
\* whose comparator is the bytewise order.
KCompare(a, b) == bytes_cmp(a, b)

\* The key type K is a type parameter of every operation: the key type of
\* the table the operation is made on, fixed when the table is defined.  The
\* tables of ReversedTables have a key type of the user whose compare is a
\* total order other than the bytewise one: its reverse.
ReversedTables == {3}
KCompareOf(table, a, b) ==
  IF table \in ReversedTables THEN bytes_cmp(b, a) ELSE KCompare(a, b)

\* cmp_keys ordering by key first and by table id among equal keys.
M_cmp_keys_key_major(table1, key1, table2, key2) ==
  IF KCompare(key1, key2) # Equal THEN KCompare(key1, key2)
  ELSE IF table1 < table2 THEN Less
  ELSE IF table1 = table2 THEN Equal
  ELSE Greater

\* K::compare is reached with table1 = table2, the table of the operation.
cmp_keys(table1, key1, table2, key2) ==
  IF table1 < table2 THEN Less
  ELSE IF table1 = table2 THEN KCompareOf(table1, key1, key2)
  ELSE Greater

\* ------------------------------------------------------------------ entry
\* An entry on a page: key_len, table_id, key bytes, value_len, value bytes.
Entry(t, k, v) == [table |-> t, key |-> k, value |-> v]

\* EntryAccessor
entry_key_len(e) == Len(e.key)
entry_value_offset(e) == 16 + entry_key_len(e) + 8
entry_value_len(e) == Len(e.value)
entry_raw_len(e) == 16 + entry_key_len(e) + 8 + entry_value_len(e)
entry_compare(e, table, key) == cmp_keys(e.table, e.key, table, key)

\* The greater slot after write_key(&[]): key_len = 0 and nothing else written.
AbsentSlot == Entry(0, <<>>, <<>>)
NoSep == [table |-> 0, key |-> <<>>]

\* ------------------------------------------------------------------ pages
\* One record shape for both page kinds; a leaf uses lesser/greater, an
\* internal page uses child (BTREE_ORDER page numbers) and sep
\* (BTREE_ORDER - 1 separators, key_len = 0 marking an unused slot).
LeafPage(l, g) ==
  [tag |-> LEAF, lesser |-> l, greater |-> g,
   child |-> <<0, 0, 0>>, sep |-> <<NoSep, NoSep>>]

\* LeafAccessor
offset_of_lesser == 1
leaf_lesser(pg) == pg.lesser
offset_of_greater(pg) == 1 + entry_raw_len(leaf_lesser(pg))
leaf_greater(pg) ==
  IF entry_key_len(pg.greater) = 0 THEN None ELSE Some(pg.greater)

\* LeafBuilder: write_lesser then write_greater
write_greater(entry) == IF IsSome(entry) THEN Unwrap(entry) ELSE AbsentSlot
BuildLeaf(l, g) == LeafPage(l, write_greater(g))

\* InternalAccessor
internal_key_len(pg, n) == Len(pg.sep[n + 1].key)
internal_table_id(pg, n) ==
  IF internal_key_len(pg, n) = 0 THEN None ELSE Some(pg.sep[n + 1].table)
internal_key(pg, n) ==
  IF internal_key_len(pg, n) = 0 THEN None ELSE Some(pg.sep[n + 1].key)
child_page(pg, n) ==
  IF n > 0 /\ internal_key_len(pg, n - 1) = 0 THEN None
  ELSE Some(pg.child[n + 1])

\* InternalBuilder::new zeroes every key length; write_first_page fills
\* child slot 0; write_nth_key(n) fills child slot n + 1 and separator n.
InternalBuilder_new ==
  [tag |-> INTERNAL, lesser |-> AbsentSlot, greater |-> AbsentSlot,
   child |-> <<0, 0, 0>>, sep |-> <<NoSep, NoSep>>]
write_first_page(pg, page_number) == [pg EXCEPT !.child[1] = page_number]
write_nth_key(pg, table_id, key, page_number, n) ==
  [pg EXCEPT !.child[n + 2] = page_number,
             !.sep[n + 1] = [table |-> table_id, key |-> key]]

\* --------------------------------------------------------- page manager
\* The store is the sequence of every page allocated so far; allocate()
\* hands out the next page number and the builder's content is stored
\* under it.  get_page(p) is mem[p].
allocate(mem) == Len(mem) + 1
Store(mem, pg) == Append(mem, pg)

\* ------------------------------------------------------------- leaf makers
make_single_leaf(mem, table, key, value) ==
  [mem |-> Store(mem, BuildLeaf(Entry(table, key, value), None)),
   page |-> allocate(mem)]

\* make_mut_single_leaf whose guard starts at value_offset() taken from the
\* start of the page, not from the start of the lesser entry.
M_make_mut_single_leaf(mem, table, key, value) ==
  LET pg == BuildLeaf(Entry(table, key, value), None)
  IN  [mem |-> Store(mem, pg),
       page |-> allocate(mem),
       guard |-> [page |-> allocate(mem),
                  offset |-> entry_value_offset(leaf_lesser(pg)),
                  len |-> Len(value)]]

make_mut_single_leaf(mem, table, key, value) ==
  LET pg == BuildLeaf(Entry(table, key, value), None)
  IN  [mem |-> Store(mem, pg),
       page |-> allocate(mem),
       guard |-> [page |-> allocate(mem),
                  offset |-> offset_of_lesser + entry_value_offset(leaf_lesser(pg)),
                  len |-> Len(value)]]

\* make_mut_double_leaf_right with the two entries written in the wrong order.
M_make_mut_double_leaf_right(mem, table1, key1, value1, table2, key2, value2) ==
  LET pg == BuildLeaf(Entry(table2, key2, value2), Some(Entry(table1, key1, value1)))
  IN  [mem |-> Store(mem, pg),
       page |-> allocate(mem),
       guard |-> [page |-> allocate(mem),
                  offset |-> offset_of_greater(pg) + entry_value_offset(pg.greater),
                  len |-> Len(value2)]]

\* The guard designates the value of the second (greater) entry.
\* accessor.greater().unwrap() is taken on the page just written.
make_mut_double_leaf_right(mem, table1, key1, value1, table2, key2, value2) ==
  LET pg == BuildLeaf(Entry(table1, key1, value1), Some(Entry(table2, key2, value2)))
  IN  [mem |-> Store(mem, pg),
       page |-> allocate(mem),
       guard |-> [page |-> allocate(mem),
                  offset |-> offset_of_greater(pg) + entry_value_offset(pg.greater),
                  len |-> Len(value2)]]


\* make_mut_double_leaf_left with the two entries written in the wrong order.
M_make_mut_double_leaf_left(mem, table1, key1, value1, table2, key2, value2) ==
  LET pg == BuildLeaf(Entry(table2, key2, value2), Some(Entry(table1, key1, value1)))
  IN  [mem |-> Store(mem, pg),
       page |-> allocate(mem),
       guard |-> [page |-> allocate(mem),
                  offset |-> offset_of_lesser + entry_value_offset(leaf_lesser(pg)),
                  len |-> Len(value1)]]

\* The guard designates the value of the first (lesser) entry.
make_mut_double_leaf_left(mem, table1, key1, value1, table2, key2, value2) ==
  LET pg == BuildLeaf(Entry(table1, key1, value1), Some(Entry(table2, key2, value2)))
  IN  [mem |-> Store(mem, pg),
       page |-> allocate(mem),
       guard |-> [page |-> allocate(mem),
                  offset |-> offset_of_lesser + entry_value_offset(leaf_lesser(pg)),
                  len |-> Len(value1)]]

\* make_index writing the first child only.
M_make_index(mem, table, key, lte_page, gt_page) ==
  [mem |-> Store(mem, write_first_page(InternalBuilder_new, lte_page)),
   page |-> allocate(mem)]

make_index(mem, table, key, lte_page, gt_page) ==
  [mem |-> Store(mem, write_nth_key(write_first_page(InternalBuilder_new, lte_page),
                                    table, key, gt_page, 0)),
   page |-> allocate(mem)]

\* ----------------------------------------------------------------- lookup
\* The bytes a reader gets from (page, offset, len): the window
\* memory()[offset .. offset + len] of a leaf page, read through the entry
\* layout (tag byte, lesser entry, greater entry).
PageBytes(pg, offset, len) ==
  LET lo == offset_of_lesser + entry_value_offset(pg.lesser)
      go == offset_of_greater(pg) + entry_value_offset(pg.greater)
  IN  IF offset = lo /\ len <= Len(pg.lesser.value)
        THEN SubSeq(pg.lesser.value, 1, len)
      ELSE IF offset = go /\ len <= Len(pg.greater.value)
        THEN SubSeq(pg.greater.value, 1, len)
      ELSE <<0 - 1>>   \* a window that is not (the start of) a value region

\* lookup_in_raw going left of a separator only for keys strictly below it.
RECURSIVE M_lookup_in_raw_strict(_, _, _, _)
M_lookup_in_raw_strict(mem, page, table, query) ==
  LET pg == mem[page] IN
  IF pg.tag = LEAF THEN
    LET c == cmp_keys(table, query, leaf_lesser(pg).table, leaf_lesser(pg).key) IN
    IF c = Less THEN None
    ELSE IF c = Equal THEN
      Some([page |-> page,
            offset |-> offset_of_lesser + entry_value_offset(leaf_lesser(pg)),
            len |-> entry_value_len(leaf_lesser(pg))])
    ELSE
      LET g == leaf_greater(pg) IN
      IF IsSome(g) /\ entry_compare(Unwrap(g), table, query) = Equal
        THEN Some([page |-> page,
                   offset |-> offset_of_greater(pg) + entry_value_offset(Unwrap(g)),
                   len |-> entry_value_len(Unwrap(g))])
        ELSE None
  ELSE
    \* for i in 0..(BTREE_ORDER - 1), unrolled by the first slot that returns
    LET Route[i \in 0..(BTREE_ORDER - 1)] ==
          IF i = BTREE_ORDER - 1 THEN Unwrap(child_page(pg, BTREE_ORDER - 1))
          ELSE IF IsSome(internal_table_id(pg, i))
            THEN IF cmp_keys(table, query, Unwrap(internal_table_id(pg, i)),
                             Unwrap(internal_key(pg, i))) = Less
                   THEN Unwrap(child_page(pg, i))
                   ELSE Route[i + 1]
            ELSE Unwrap(child_page(pg, i))
    IN  M_lookup_in_raw_strict(mem, Route[0], table, query)

RECURSIVE lookup_in_raw(_, _, _, _)
lookup_in_raw(mem, page, table, query) ==
  LET pg == mem[page] IN
  IF pg.tag = LEAF THEN
    LET c == cmp_keys(table, query, leaf_lesser(pg).table, leaf_lesser(pg).key) IN
    IF c = Less THEN None
    ELSE IF c = Equal THEN
      Some([page |-> page,
            offset |-> offset_of_lesser + entry_value_offset(leaf_lesser(pg)),
            len |-> entry_value_len(leaf_lesser(pg))])
    ELSE
      LET g == leaf_greater(pg) IN
      IF IsSome(g) /\ entry_compare(Unwrap(g), table, query) = Equal
        THEN Some([page |-> page,
                   offset |-> offset_of_greater(pg) + entry_value_offset(Unwrap(g)),
                   len |-> entry_value_len(Unwrap(g))])
        ELSE None
  ELSE
    \* for i in 0..(BTREE_ORDER - 1), unrolled by the first slot that returns
    LET Route[i \in 0..(BTREE_ORDER - 1)] ==
          IF i = BTREE_ORDER - 1 THEN Unwrap(child_page(pg, BTREE_ORDER - 1))
          ELSE IF IsSome(internal_table_id(pg, i))
            THEN IF cmp_keys(table, query, Unwrap(internal_table_id(pg, i)),
                             Unwrap(internal_key(pg, i))) # Greater
                   THEN Unwrap(child_page(pg, i))
                   ELSE Route[i + 1]
            ELSE Unwrap(child_page(pg, i))
    IN  lookup_in_raw(mem, Route[0], table, query)

\* Option<value bytes> seen through the handle that lookup_in_raw returns.
LookupValue(mem, rt, table, query) ==
  IF rt = 0 THEN None
  ELSE LET h == lookup_in_raw(mem, rt, table, query)
       IN  IF IsSome(h)
             THEN Some(PageBytes(mem[Unwrap(h).page], Unwrap(h).offset, Unwrap(h).len))
             ELSE None

\* ------------------------------------------------------------ tree_height
RECURSIVE tree_height(_, _)
tree_height(mem, page) ==
  LET pg == mem[page] IN
  IF pg.tag = LEAF THEN 1
  ELSE LET H[i \in 0..BTREE_ORDER] ==
             IF i = BTREE_ORDER THEN 0
             ELSE LET rest == H[i + 1]
                      c == child_page(pg, i)
                  IN  IF IsSome(c)
                        THEN LET h == tree_height(mem, Unwrap(c))
                             IN  IF h > rest THEN h ELSE rest
                        ELSE rest
       IN  H[0] + 1

\* ----------------------------------------------------------------- insert
\* Result of tree_insert_helper: (page1, more, guard) and the store after
\* the pages it allocated.  more is Option<(table, key, page2)>.
InsRes(mem, page1, more, guard) ==
  [mem |-> mem, page1 |-> page1, more |-> more, guard |-> guard]
More(table, key, page2) == Some([table |-> table, key |-> key, page |-> page2])

RECURSIVE tree_insert_helper(_, _, _, _, _)
RECURSIVE insert_route(_, _, _, _, _, _)

\* insert_leaf reporting the new key, not the old greater key, as the separator
\* when the new entry goes to a page of its own on the right.
M_insert_leaf(mem, page, table, key, value) ==
  LET pg == mem[page]
      lesser == leaf_lesser(pg)
      g == leaf_greater(pg)
  IN
  IF IsSome(g) THEN
    LET entry == Unwrap(g)
        c == entry_compare(entry, table, key)
    IN
    IF c = Less THEN
      \* New entry goes in a new page to the right, this page is left untouched
      LET r == make_mut_single_leaf(mem, table, key, value)
      IN  InsRes(r.mem, page, More(table, key, r.page), r.guard)
    ELSE IF c = Equal THEN
      LET r == make_mut_double_leaf_right(mem, lesser.table, lesser.key, lesser.value,
                                          table, key, value)
      IN  InsRes(r.mem, r.page, None, r.guard)
    ELSE
      LET c2 == entry_compare(lesser, table, key) IN
      IF c2 = Less THEN
        LET l == make_mut_double_leaf_right(mem, lesser.table, lesser.key, lesser.value,
                                            table, key, value)
            r == make_single_leaf(l.mem, entry.table, entry.key, entry.value)
        IN  InsRes(r.mem, l.page, More(table, key, r.page), l.guard)
      ELSE IF c2 = Equal THEN
        LET r == make_mut_double_leaf_left(mem, table, key, value,
                                           entry.table, entry.key, entry.value)
        IN  InsRes(r.mem, r.page, None, r.guard)
      ELSE
        LET l == make_mut_double_leaf_left(mem, table, key, value,
                                           lesser.table, lesser.key, lesser.value)
            r == make_single_leaf(l.mem, entry.table, entry.key, entry.value)
        IN  InsRes(r.mem, l.page, More(lesser.table, lesser.key, r.page), l.guard)
  ELSE
    LET c == cmp_keys(lesser.table, lesser.key, table, key)
        r == IF c = Less
               THEN make_mut_double_leaf_right(mem, lesser.table, lesser.key, lesser.value,
                                               table, key, value)
             ELSE IF c = Equal
               THEN make_mut_single_leaf(mem, table, key, value)
             ELSE make_mut_double_leaf_left(mem, table, key, value,
                                            lesser.table, lesser.key, lesser.value)
    IN  InsRes(r.mem, r.page, None, r.guard)

\* insert_leaf giving a leaf of one entry its second entry in place, on the
\* page it was handed.
M_insert_leaf_in_place(mem, page, table, key, value) ==
  LET pg == mem[page]
      lesser == leaf_lesser(pg)
      g == leaf_greater(pg)
  IN
  IF IsSome(g) THEN
    LET entry == Unwrap(g)
        c == entry_compare(entry, table, key)
    IN
    IF c = Less THEN
      \* New entry goes in a new page to the right, this page is left untouched
      LET r == make_mut_single_leaf(mem, table, key, value)
      IN  InsRes(r.mem, page, More(entry.table, entry.key, r.page), r.guard)
    ELSE IF c = Equal THEN
      LET r == make_mut_double_leaf_right(mem, lesser.table, lesser.key, lesser.value,
                                          table, key, value)
      IN  InsRes(r.mem, r.page, None, r.guard)
    ELSE
      LET c2 == entry_compare(lesser, table, key) IN
      IF c2 = Less THEN
        LET l == make_mut_double_leaf_right(mem, lesser.table, lesser.key, lesser.value,
                                            table, key, value)
            r == make_single_leaf(l.mem, entry.table, entry.key, entry.value)
        IN  InsRes(r.mem, l.page, More(table, key, r.page), l.guard)
      ELSE IF c2 = Equal THEN
        LET r == make_mut_double_leaf_left(mem, table, key, value,
                                           entry.table, entry.key, entry.value)
        IN  InsRes(r.mem, r.page, None, r.guard)
      ELSE
        LET l == make_mut_double_leaf_left(mem, table, key, value,
                                           lesser.table, lesser.key, lesser.value)
            r == make_single_leaf(l.mem, entry.table, entry.key, entry.value)
        IN  InsRes(r.mem, l.page, More(lesser.table, lesser.key, r.page), l.guard)
  ELSE
    LET c == cmp_keys(lesser.table, lesser.key, table, key)
        r == IF c = Less
               THEN make_mut_double_leaf_right(mem, lesser.table, lesser.key, lesser.value,
                                               table, key, value)
             ELSE IF c = Equal
               THEN make_mut_single_leaf(mem, table, key, value)
             ELSE make_mut_double_leaf_left(mem, table, key, value,
                                            lesser.table, lesser.key, lesser.value)
    IN  IF c = Equal
          THEN InsRes(r.mem, r.page, None, r.guard)
          ELSE InsRes([mem EXCEPT ![page] = r.mem[r.page]], page, None,
                      [r.guard EXCEPT !.page = page])


\* insert_leaf replacing the value of the only entry of a leaf on the page it
\* was handed.
M_insert_leaf_overwrite(mem, page, table, key, value) ==
  LET pg == mem[page]
      lesser == leaf_lesser(pg)
      g == leaf_greater(pg)
  IN
  IF IsSome(g) THEN
    LET entry == Unwrap(g)
        c == entry_compare(entry, table, key)
    IN
    IF c = Less THEN
      \* New entry goes in a new page to the right, this page is left untouched
      LET r == make_mut_single_leaf(mem, table, key, value)
      IN  InsRes(r.mem, page, More(entry.table, entry.key, r.page), r.guard)
    ELSE IF c = Equal THEN
      LET r == make_mut_double_leaf_right(mem, lesser.table, lesser.key, lesser.value,
                                          table, key, value)
      IN  InsRes(r.mem, r.page, None, r.guard)
    ELSE
      LET c2 == entry_compare(lesser, table, key) IN
      IF c2 = Less THEN
        LET l == make_mut_double_leaf_right(mem, lesser.table, lesser.key, lesser.value,
                                            table, key, value)
            r == make_single_leaf(l.mem, entry.table, entry.key, entry.value)
        IN  InsRes(r.mem, l.page, More(table, key, r.page), l.guard)
      ELSE IF c2 = Equal THEN
        LET r == make_mut_double_leaf_left(mem, table, key, value,
                                           entry.table, entry.key, entry.value)
        IN  InsRes(r.mem, r.page, None, r.guard)
      ELSE
        LET l == make_mut_double_leaf_left(mem, table, key, value,
                                           lesser.table, lesser.key, lesser.value)
            r == make_single_leaf(l.mem, entry.table, entry.key, entry.value)
        IN  InsRes(r.mem, l.page, More(lesser.table, lesser.key, r.page), l.guard)
  ELSE
    LET c == cmp_keys(lesser.table, lesser.key, table, key)
        r == IF c = Less
               THEN make_mut_double_leaf_right(mem, lesser.table, lesser.key, lesser.value,
                                               table, key, value)
             ELSE IF c = Equal
               THEN make_mut_single_leaf(mem, table, key, value)
             ELSE make_mut_double_leaf_left(mem, table, key, value,
                                            lesser.table, lesser.key, lesser.value)
    IN  IF c = Equal
          THEN InsRes([mem EXCEPT ![page] = r.mem[r.page]], page, None,
                      [r.guard EXCEPT !.page = page])
          ELSE InsRes(r.mem, r.page, None, r.guard)


\* LEAF arm of tree_insert_helper
insert_leaf(mem, page, table, key, value) ==
  LET pg == mem[page]
      lesser == leaf_lesser(pg)
      g == leaf_greater(pg)
  IN
  IF IsSome(g) THEN
    LET entry == Unwrap(g)
        c == entry_compare(entry, table, key)
    IN
    IF c = Less THEN
      \* New entry goes in a new page to the right, this page is left untouched
      LET r == make_mut_single_leaf(mem, table, key, value)
      IN  InsRes(r.mem, page, More(entry.table, entry.key, r.page), r.guard)
    ELSE IF c = Equal THEN
      LET r == make_mut_double_leaf_right(mem, lesser.table, lesser.key, lesser.value,
                                          table, key, value)
      IN  InsRes(r.mem, r.page, None, r.guard)
    ELSE
      LET c2 == entry_compare(lesser, table, key) IN
      IF c2 = Less THEN
        LET l == make_mut_double_leaf_right(mem, lesser.table, lesser.key, lesser.value,
                                            table, key, value)
            r == make_single_leaf(l.mem, entry.table, entry.key, entry.value)
        IN  InsRes(r.mem, l.page, More(table, key, r.page), l.guard)
      ELSE IF c2 = Equal THEN
        LET r == make_mut_double_leaf_left(mem, table, key, value,
                                           entry.table, entry.key, entry.value)
        IN  InsRes(r.mem, r.page, None, r.guard)
      ELSE
        LET l == make_mut_double_leaf_left(mem, table, key, value,
                                           lesser.table, lesser.key, lesser.value)
            r == make_single_leaf(l.mem, entry.table, entry.key, entry.value)
        IN  InsRes(r.mem, l.page, More(lesser.table, lesser.key, r.page), l.guard)
  ELSE
    LET c == cmp_keys(lesser.table, lesser.key, table, key)
        r == IF c = Less
               THEN make_mut_double_leaf_right(mem, lesser.table, lesser.key, lesser.value,
                                               table, key, value)
             ELSE IF c = Equal
               THEN make_mut_single_leaf(mem, table, key, value)
             ELSE make_mut_double_leaf_left(mem, table, key, value,
                                            lesser.table, lesser.key, lesser.value)
    IN  InsRes(r.mem, r.page, None, r.guard)

\* The loop `for i in 0..(BTREE_ORDER - 1)` of the INTERNAL arm, from slot i
\* on, and the handling of the last child after it.  acc carries the
\* loop's variables: mem, children, index_table_keys, guard (Option).
insert_last(acc, pg, last_valid_child, table, key, value) ==
  LET last_page == Unwrap(child_page(pg, last_valid_child)) IN
  IF IsSome(acc.guard)
    THEN [acc EXCEPT !.children = Append(@, last_page)]
    ELSE LET r == tree_insert_helper(acc.mem, last_page, table, key, value)
         IN  [mem |-> r.mem,
              children |-> IF IsSome(r.more)
                             THEN acc.children \o <<r.page1, Unwrap(r.more).page>>
                             ELSE Append(acc.children, r.page1),
              index_table_keys |->
                 IF IsSome(r.more)
                   THEN Append(acc.index_table_keys,
                               [table |-> Unwrap(r.more).table, key |-> Unwrap(r.more).key])
                   ELSE acc.index_table_keys,
              guard |-> Some(r.guard)]

insert_route(acc, pg, i, table, key, value) ==
  IF i = BTREE_ORDER - 1
    THEN insert_last(acc, pg, BTREE_ORDER - 1, table, key, value)
  ELSE IF IsSome(internal_table_id(pg, i)) THEN
    LET index_table == Unwrap(internal_table_id(pg, i))
        index_key == Unwrap(internal_key(pg, i))
        sep == [table |-> index_table, key |-> index_key]
    IN
    IF cmp_keys(table, key, index_table, index_key) # Greater /\ ~IsSome(acc.guard) THEN
      LET lte_page == Unwrap(child_page(pg, i))
          r == tree_insert_helper(acc.mem, lte_page, table, key, value)
          acc2 ==
            [mem |-> r.mem,
             children |-> IF IsSome(r.more)
                            THEN acc.children \o <<r.page1, Unwrap(r.more).page>>
                            ELSE Append(acc.children, r.page1),
             index_table_keys |->
                IF IsSome(r.more)
                  THEN acc.index_table_keys \o
                         <<[table |-> Unwrap(r.more).table, key |-> Unwrap(r.more).key], sep>>
                  ELSE Append(acc.index_table_keys, sep),
             guard |-> Some(r.guard)]
      IN  insert_route(acc2, pg, i + 1, table, key, value)
    ELSE
      insert_route([acc EXCEPT !.children = Append(@, Unwrap(child_page(pg, i))),
                               !.index_table_keys = Append(@, sep)],
                   pg, i + 1, table, key, value)
  ELSE
    \* last_valid_child = i; break
    insert_last(acc, pg, i, table, key, value)

\* insert_write whose second page of a split repeats children[2] and never
\* links children[3].
M_insert_write(acc) ==
  LET children == acc.children
      keys == acc.index_table_keys
      guard == Unwrap(acc.guard)
      page == allocate(acc.mem)
  IN
  IF Len(children) <= BTREE_ORDER THEN
    LET W[i \in 0..Len(keys)] ==
          IF i = 0 THEN write_first_page(InternalBuilder_new, children[1])
          ELSE write_nth_key(W[i - 1], keys[i].table, keys[i].key, children[i + 1], i - 1)
    IN  InsRes(Store(acc.mem, W[Len(keys)]), page, None, guard)
  ELSE
    LET b1 == write_nth_key(write_first_page(InternalBuilder_new, children[1]),
                            keys[1].table, keys[1].key, children[2], 0)
        b2 == write_nth_key(write_first_page(InternalBuilder_new, children[3]),
                            keys[3].table, keys[3].key, children[3], 0)
        mem1 == Store(acc.mem, b1)
        page2 == allocate(mem1)
    IN  InsRes(Store(mem1, b2), page, More(keys[2].table, keys[2].key, page2), guard)

\* Writing the assembled children: one page, or two pages of two children
\* each with index_table_keys[1] handed to the parent.
insert_write(acc) ==
  LET children == acc.children
      keys == acc.index_table_keys
      guard == Unwrap(acc.guard)
      page == allocate(acc.mem)
  IN
  IF Len(children) <= BTREE_ORDER THEN
    LET W[i \in 0..Len(keys)] ==
          IF i = 0 THEN write_first_page(InternalBuilder_new, children[1])
          ELSE write_nth_key(W[i - 1], keys[i].table, keys[i].key, children[i + 1], i - 1)
    IN  InsRes(Store(acc.mem, W[Len(keys)]), page, None, guard)
  ELSE
    LET b1 == write_nth_key(write_first_page(InternalBuilder_new, children[1]),
                            keys[1].table, keys[1].key, children[2], 0)
        b2 == write_nth_key(write_first_page(InternalBuilder_new, children[3]),
                            keys[3].table, keys[3].key, children[4], 0)
        mem1 == Store(acc.mem, b1)
        page2 == allocate(mem1)
    IN  InsRes(Store(mem1, b2), page, More(keys[2].table, keys[2].key, page2), guard)

tree_insert_helper(mem, page, table, key, value) ==
  IF mem[page].tag = LEAF
    THEN insert_leaf(mem, page, table, key, value)
    ELSE insert_write(insert_route([mem |-> mem, children |-> <<>>,
                                    index_table_keys |-> <<>>, guard |-> None],
                                   mem[page], 0, table, key, value))

\* tree_insert putting a new index page above the helper's page whether or
\* not the helper reported a split.
M_tree_insert(mem, page, table, key, value) ==
  LET with_index(ix, guard) == [mem |-> ix.mem, page |-> ix.page, guard |-> guard]
      finish(r) ==
        IF IsSome(r.more)
          THEN with_index(make_index(r.mem, Unwrap(r.more).table, Unwrap(r.more).key,
                                     r.page1, Unwrap(r.more).page),
                          r.guard)
          ELSE with_index(make_index(r.mem, table, key, r.page1, r.page1), r.guard)
  IN  finish(tree_insert_helper(mem, page, table, key, value))

tree_insert(mem, page, table, key, value) ==
  LET with_index(ix, guard) == [mem |-> ix.mem, page |-> ix.page, guard |-> guard]
      finish(r) ==
        IF IsSome(r.more)
          THEN with_index(make_index(r.mem, Unwrap(r.more).table, Unwrap(r.more).key,
                                     r.page1, Unwrap(r.more).page),
                          r.guard)
          ELSE [mem |-> r.mem, page |-> r.page1, guard |-> r.guard]
  IN  finish(tree_insert_helper(mem, page, table, key, value))

\* ----------------------------------------------------------------- delete
\* DeletionResult
Subtree(page) == [kind |-> "Subtree", page |-> page, entries |-> <<>>, pages |-> <<>>]
PartialLeaf(entries) ==
  [kind |-> "PartialLeaf", page |-> 0, entries |-> entries, pages |-> <<>>]
PartialInternal(pages) ==
  [kind |-> "PartialInternal", page |-> 0, entries |-> <<>>, pages |-> pages]

RECURSIVE max_table_key(_, _)
max_table_key(mem, page) ==
  LET pg == mem[page] IN
  IF pg.tag = LEAF THEN
    IF IsSome(leaf_greater(pg))
      THEN [table |-> Unwrap(leaf_greater(pg)).table, key |-> Unwrap(leaf_greater(pg)).key]
      ELSE [table |-> leaf_lesser(pg).table, key |-> leaf_lesser(pg).key]
  ELSE
    \* for i in (0..BTREE_ORDER).rev(): the last present child
    LET Last[i \in 0..(BTREE_ORDER - 1)] ==
          IF IsSome(child_page(pg, i)) \/ i = 0 THEN Unwrap(child_page(pg, i))
          ELSE Last[i - 1]
    IN  max_table_key(mem, Last[BTREE_ORDER - 1])

\* The derived order of (u64, Vec<u8>) that sort_by_key compares with.
max_key_le(a, b) ==
  \/ a.table < b.table
  \/ a.table = b.table /\ bytes_cmp(a.key, b.key) # Greater

\* pages.sort_by_key(|p| max_table_key(..)): a stable sort.
RECURSIVE sort_by_max_key(_, _)
sort_by_max_key(mem, ps) ==
  IF Len(ps) <= 1 THEN ps
  ELSE LET \* number of sorted elements strictly below the key k of the head
           below(rest, k) ==
             Cardinality({i \in 1..Len(rest) :
                            ~max_key_le(k, max_table_key(mem, rest[i]))})
           place(rest, n) ==
             SubSeq(rest, 1, n) \o <<Head(ps)>> \o SubSeq(rest, n + 1, Len(rest))
           into(rest) == place(rest, below(rest, max_table_key(mem, Head(ps))))
       IN  into(sort_by_max_key(mem, Tail(ps)))

\* The present children of an internal page, in slot order.
present_children(pg) ==
  LET C[i \in 0..BTREE_ORDER] ==
        IF i = 0 THEN <<>>
        ELSE IF IsSome(child_page(pg, i - 1))
          THEN Append(C[i - 1], Unwrap(child_page(pg, i - 1)))
          ELSE C[i - 1]
  IN  C[BTREE_ORDER]

\* Option<(page1, page2)> with the store
split_leaf(mem, leaf, partial) ==
  LET pg == mem[leaf]
      both(p1, p2) == [mem |-> p2.mem, pages |-> Some(<<p1.page, p2.page>>)]
      second(p1, greater) ==
        both(p1, make_single_leaf(p1.mem, greater.table, greater.key, greater.value))
      first(lesser, greater) ==
        second(make_single_leaf(mem, lesser.table, lesser.key, lesser.value), greater)
  IN  IF IsSome(leaf_greater(pg))
        THEN first(leaf_lesser(pg), Unwrap(leaf_greater(pg)))
        ELSE [mem |-> mem, pages |-> None]

merge_leaf(mem, leaf, partial) == [mem |-> mem, page |-> leaf]

split_index(mem, index, partial) ==
  LET pg == mem[index]
      both(page1, page2) == [mem |-> page2.mem, pages |-> Some(<<page1.page, page2.page>>)]
      second(ps, page1, k2) ==
        both(page1, make_index(page1.mem, k2.table, k2.key, ps[3], ps[4]))
      first(ps, k1) ==
        second(ps, make_index(mem, k1.table, k1.key, ps[1], ps[2]),
               max_table_key(mem, ps[3]))
      sorted(ps) == first(ps, max_table_key(mem, ps[1]))
  IN  IF ~IsSome(child_page(pg, BTREE_ORDER - 1)) THEN [mem |-> mem, pages |-> None]
      ELSE sorted(sort_by_max_key(mem, partial \o present_children(pg)))

\* build_internal taking each separator from the child after it.
M_build_internal(mem, children) ==
  LET W[i \in 0..(Len(children) - 1)] ==
        IF i = 0 THEN write_first_page(InternalBuilder_new, children[1])
        ELSE LET k == max_table_key(mem, children[i + 1])
             IN  write_nth_key(W[i - 1], k.table, k.key, children[i + 1], i - 1)
  IN  [mem |-> Store(mem, W[Len(children) - 1]), page |-> allocate(mem)]

\* A new internal page over `children`, the separator after child i being
\* max_table_key(children[i]): the tail of merge_index and of the INTERNAL
\* arm of tree_delete_helper.
build_internal(mem, children) ==
  LET W[i \in 0..(Len(children) - 1)] ==
        IF i = 0 THEN write_first_page(InternalBuilder_new, children[1])
        ELSE LET k == max_table_key(mem, children[i])
             IN  write_nth_key(W[i - 1], k.table, k.key, children[i + 1], i - 1)
  IN  [mem |-> Store(mem, W[Len(children) - 1]), page |-> allocate(mem)]

merge_index(mem, index, partial) ==
  build_internal(mem, sort_by_max_key(mem, partial \o present_children(mem[index])))

\* The loop of repair_children over i, shared by the PartialLeaf and the
\* PartialInternal branch, which differ in the variant looked for next to a
\* Subtree and in the split/merge pair applied.  acc carries mem, result
\* and repaired.
repair_with(acc, page_number, partial, kind) ==
  LET merged(m) ==
        [mem |-> m.mem, result |-> Append(acc.result, m.page), repaired |-> TRUE]
      split(s) ==
        IF IsSome(s.pages)
          THEN [mem |-> s.mem, result |-> acc.result \o Unwrap(s.pages), repaired |-> TRUE]
          ELSE merged(IF kind = "PartialLeaf"
                        THEN merge_leaf(acc.mem, page_number, partial.entries)
                        ELSE merge_index(acc.mem, page_number, partial.pages))
  IN  split(IF kind = "PartialLeaf"
              THEN split_leaf(acc.mem, page_number, partial.entries)
              ELSE split_index(acc.mem, page_number, partial.pages))

RECURSIVE repair_loop(_, _, _, _)
repair_loop(acc, children, i, kind) ==
  IF i >= Len(children) THEN acc
  ELSE
    LET c == children[i + 1] IN
    IF c.kind # "Subtree" THEN repair_loop(acc, children, i + 1, kind)
    ELSE IF acc.repaired
      THEN repair_loop([acc EXCEPT !.result = Append(@, c.page)], children, i + 1, kind)
    ELSE
      LET \* if let Some(Partial..) = children.get(i - 1)
          before(a) == IF i > 0 /\ children[i].kind = kind
                         THEN repair_with(a, c.page, children[i], kind)
                         ELSE a
          \* if let Some(Partial..) = children.get(i + 1)
          after(a) == IF i + 1 < Len(children) /\ children[i + 2].kind = kind
                        THEN repair_with(a, c.page, children[i + 2], kind)
                        ELSE a
      IN  repair_loop(after(before(acc)), children, i + 1, kind)

repair_children(mem, children) ==
  IF \A i \in 1..Len(children) : children[i].kind = "Subtree"
    THEN [mem |-> mem, pages |-> [i \in 1..Len(children) |-> children[i].page]]
  ELSE
    LET kind == IF \E i \in 1..Len(children) : children[i].kind = "PartialLeaf"
                  THEN "PartialLeaf" ELSE "PartialInternal"
        out(r) == [mem |-> r.mem, pages |-> r.result]
    IN  out(repair_loop([mem |-> mem, result |-> <<>>, repaired |-> FALSE],
                        children, 0, kind))

RECURSIVE tree_delete_helper(_, _, _, _)
RECURSIVE delete_route(_, _, _, _, _)

\* delete_leaf keeping the wrong entry of a leaf of two.
M_delete_leaf(mem, page, table, key) ==
  LET pg == mem[page]
      lesser == leaf_lesser(pg)
      g == leaf_greater(pg)
  IN
  IF IsSome(g) THEN
    IF entry_compare(lesser, table, key) # Equal
       /\ entry_compare(Unwrap(g), table, key) # Equal
      THEN [mem |-> mem, res |-> Subtree(page)]
      ELSE LET new_leaf == IF entry_compare(lesser, table, key) = Equal
                             THEN lesser ELSE Unwrap(g)
               r == make_single_leaf(mem, new_leaf.table, new_leaf.key, new_leaf.value)
           IN  [mem |-> r.mem, res |-> Subtree(r.page)]
  ELSE
    IF entry_compare(lesser, table, key) = Equal
      THEN [mem |-> mem, res |-> PartialLeaf(<<>>)]
      ELSE [mem |-> mem, res |-> Subtree(page)]

\* delete_leaf without the `Not found` return for a leaf of two entries.
M_delete_leaf_found(mem, page, table, key) ==
  LET pg == mem[page]
      lesser == leaf_lesser(pg)
      g == leaf_greater(pg)
  IN
  IF IsSome(g) THEN
    IF FALSE
      THEN [mem |-> mem, res |-> Subtree(page)]
      ELSE LET new_leaf == IF entry_compare(lesser, table, key) = Equal
                             THEN Unwrap(g) ELSE lesser
               r == make_single_leaf(mem, new_leaf.table, new_leaf.key, new_leaf.value)
           IN  [mem |-> r.mem, res |-> Subtree(r.page)]
  ELSE
    IF entry_compare(lesser, table, key) = Equal
      THEN [mem |-> mem, res |-> PartialLeaf(<<>>)]
      ELSE [mem |-> mem, res |-> Subtree(page)]

\* delete_leaf writing the surviving entry of a leaf of two into the page it
\* was given, in place.
M_delete_leaf_in_place(mem, page, table, key) ==
  LET pg == mem[page]
      lesser == leaf_lesser(pg)
      g == leaf_greater(pg)
  IN
  IF IsSome(g) THEN
    IF entry_compare(lesser, table, key) # Equal
       /\ entry_compare(Unwrap(g), table, key) # Equal
      THEN [mem |-> mem, res |-> Subtree(page)]
      ELSE LET new_leaf == IF entry_compare(lesser, table, key) = Equal
                             THEN Unwrap(g) ELSE lesser
           IN  [mem |-> [mem EXCEPT ![page] = BuildLeaf(new_leaf, None)],
                res |-> Subtree(page)]
  ELSE
    IF entry_compare(lesser, table, key) = Equal
      THEN [mem |-> mem, res |-> PartialLeaf(<<>>)]
      ELSE [mem |-> mem, res |-> Subtree(page)]

\* delete_leaf handing the deleted entry up as the carry of its PartialLeaf.
M_delete_leaf_carry(mem, page, table, key) ==
  LET pg == mem[page]
      lesser == leaf_lesser(pg)
      g == leaf_greater(pg)
  IN
  IF IsSome(g) THEN
    IF entry_compare(lesser, table, key) # Equal
       /\ entry_compare(Unwrap(g), table, key) # Equal
      THEN [mem |-> mem, res |-> Subtree(page)]
      ELSE LET new_leaf == IF entry_compare(lesser, table, key) = Equal
                             THEN Unwrap(g) ELSE lesser
               r == make_single_leaf(mem, new_leaf.table, new_leaf.key, new_leaf.value)
           IN  [mem |-> r.mem, res |-> Subtree(r.page)]
  ELSE
    IF entry_compare(lesser, table, key) = Equal
      THEN [mem |-> mem, res |-> PartialLeaf(<<lesser>>)]
      ELSE [mem |-> mem, res |-> Subtree(page)]

\* LEAF arm of tree_delete_helper
delete_leaf(mem, page, table, key) ==
  LET pg == mem[page]
      lesser == leaf_lesser(pg)
      g == leaf_greater(pg)
  IN
  IF IsSome(g) THEN
    IF entry_compare(lesser, table, key) # Equal
       /\ entry_compare(Unwrap(g), table, key) # Equal
      THEN [mem |-> mem, res |-> Subtree(page)]
      ELSE LET new_leaf == IF entry_compare(lesser, table, key) = Equal
                             THEN Unwrap(g) ELSE lesser
               r == make_single_leaf(mem, new_leaf.table, new_leaf.key, new_leaf.value)
           IN  [mem |-> r.mem, res |-> Subtree(r.page)]
  ELSE
    IF entry_compare(lesser, table, key) = Equal
      THEN [mem |-> mem, res |-> PartialLeaf(<<>>)]
      ELSE [mem |-> mem, res |-> Subtree(page)]

\* delete_last without the return of the original page when the last child
\* comes back unchanged.
M_delete_last(acc, pg, last_valid_child, table, key) ==
  LET last_page == Unwrap(child_page(pg, last_valid_child)) IN
  IF acc.found
    THEN [acc EXCEPT !.children = Append(@, Subtree(last_page))]
    ELSE LET went(r) == [mem |-> r.mem, children |-> Append(acc.children, r.res),
                         found |-> TRUE, unchanged |-> FALSE]
         IN  went(tree_delete_helper(acc.mem, last_page, table, key))

\* The last present child of the INTERNAL arm of tree_delete_helper, after the
\* routing loop.
delete_last(acc, pg, last_valid_child, table, key) ==
  LET last_page == Unwrap(child_page(pg, last_valid_child)) IN
  IF acc.found
    THEN [acc EXCEPT !.children = Append(@, Subtree(last_page))]
    ELSE LET went(r) ==
               IF r.res.kind = "Subtree" /\ r.res.page = last_page
                 THEN [acc EXCEPT !.mem = r.mem, !.unchanged = TRUE]
                 ELSE [mem |-> r.mem, children |-> Append(acc.children, r.res),
                       found |-> TRUE, unchanged |-> FALSE]
         IN  went(tree_delete_helper(acc.mem, last_page, table, key))

\* delete_route without the early return for a child below a separator that
\* came back unchanged.
M_delete_route(acc, pg, i, table, key) ==
  IF i = BTREE_ORDER - 1
    THEN delete_last(acc, pg, BTREE_ORDER - 1, table, key)
  ELSE IF IsSome(internal_table_id(pg, i)) THEN
    LET index_table == Unwrap(internal_table_id(pg, i))
        index_key == Unwrap(internal_key(pg, i))
        child == Unwrap(child_page(pg, i))
    IN
    IF cmp_keys(table, key, index_table, index_key) # Greater /\ ~acc.found THEN
      LET went(r) ==
            IF FALSE
              THEN [acc EXCEPT !.mem = r.mem, !.unchanged = TRUE]
              ELSE delete_route([mem |-> r.mem, children |-> Append(acc.children, r.res),
                                 found |-> TRUE, unchanged |-> FALSE],
                                pg, i + 1, table, key)
      IN  went(tree_delete_helper(acc.mem, child, table, key))
    ELSE
      delete_route([acc EXCEPT !.children = Append(@, Subtree(child))],
                   pg, i + 1, table, key)
  ELSE
    \* last_valid_child = i; break
    delete_last(acc, pg, i, table, key)

\* The routing loop of the INTERNAL arm from slot i on; acc carries mem,
\* children, found and unchanged (the early
\* `return Subtree(original_page_number)`).
delete_route(acc, pg, i, table, key) ==
  IF i = BTREE_ORDER - 1
    THEN delete_last(acc, pg, BTREE_ORDER - 1, table, key)
  ELSE IF IsSome(internal_table_id(pg, i)) THEN
    LET index_table == Unwrap(internal_table_id(pg, i))
        index_key == Unwrap(internal_key(pg, i))
        child == Unwrap(child_page(pg, i))
    IN
    IF cmp_keys(table, key, index_table, index_key) # Greater /\ ~acc.found THEN
      LET went(r) ==
            IF r.res.kind = "Subtree" /\ r.res.page = child
              THEN [acc EXCEPT !.mem = r.mem, !.unchanged = TRUE]
              ELSE delete_route([mem |-> r.mem, children |-> Append(acc.children, r.res),
                                 found |-> TRUE, unchanged |-> FALSE],
                                pg, i + 1, table, key)
      IN  went(tree_delete_helper(acc.mem, child, table, key))
    ELSE
      delete_route([acc EXCEPT !.children = Append(@, Subtree(child))],
                   pg, i + 1, table, key)
  ELSE
    \* last_valid_child = i; break
    delete_last(acc, pg, i, table, key)

\* tree_delete_helper handing a single repaired child up as a Subtree, in the
\* place of its parent.
M_tree_delete_helper_collapse(mem, page, table, key) ==
  IF mem[page].tag = LEAF THEN delete_leaf(mem, page, table, key)
  ELSE
    LET built(b) == [mem |-> b.mem, res |-> Subtree(b.page)]
        repaired(rep) ==
          IF Len(rep.pages) = 1
            THEN [mem |-> rep.mem, res |-> Subtree(rep.pages[1])]
            ELSE built(build_internal(rep.mem, rep.pages))
        routed(acc) ==
          IF acc.unchanged THEN [mem |-> acc.mem, res |-> Subtree(page)]
          ELSE repaired(repair_children(acc.mem, acc.children))
    IN  routed(delete_route([mem |-> mem, children |-> <<>>, found |-> FALSE,
                             unchanged |-> FALSE],
                            mem[page], 0, table, key))

\* tree_delete_helper without the `children.len() == 1` return: an internal
\* page is built over a single child.
M_tree_delete_helper_single(mem, page, table, key) ==
  IF mem[page].tag = LEAF THEN delete_leaf(mem, page, table, key)
  ELSE
    LET built(b) == [mem |-> b.mem, res |-> Subtree(b.page)]
        repaired(rep) == built(build_internal(rep.mem, rep.pages))
        routed(acc) ==
          IF acc.unchanged THEN [mem |-> acc.mem, res |-> Subtree(page)]
          ELSE repaired(repair_children(acc.mem, acc.children))
    IN  routed(delete_route([mem |-> mem, children |-> <<>>, found |-> FALSE,
                             unchanged |-> FALSE],
                            mem[page], 0, table, key))

\* tree_delete_helper reporting an internal page as under-full when it is
\* left with two children, and carrying both.
M_tree_delete_helper_partial(mem, page, table, key) ==
  IF mem[page].tag = LEAF THEN delete_leaf(mem, page, table, key)
  ELSE
    LET built(b) == [mem |-> b.mem, res |-> Subtree(b.page)]
        repaired(rep) ==
          IF Len(rep.pages) <= 2
            THEN [mem |-> rep.mem, res |-> PartialInternal(rep.pages)]
            ELSE built(build_internal(rep.mem, rep.pages))
        routed(acc) ==
          IF acc.unchanged THEN [mem |-> acc.mem, res |-> Subtree(page)]
          ELSE repaired(repair_children(acc.mem, acc.children))
    IN  routed(delete_route([mem |-> mem, children |-> <<>>, found |-> FALSE,
                             unchanged |-> FALSE],
                            mem[page], 0, table, key))

\* The LEAF arm, or the INTERNAL arm: route the delete to a child, repair
\* the children, and build the new internal page over them.
tree_delete_helper(mem, page, table, key) ==
  IF mem[page].tag = LEAF THEN delete_leaf(mem, page, table, key)
  ELSE
    LET built(b) == [mem |-> b.mem, res |-> Subtree(b.page)]
        repaired(rep) ==
          IF Len(rep.pages) = 1
            THEN [mem |-> rep.mem, res |-> PartialInternal(rep.pages)]
            ELSE built(build_internal(rep.mem, rep.pages))
        routed(acc) ==
          IF acc.unchanged THEN [mem |-> acc.mem, res |-> Subtree(page)]
          ELSE repaired(repair_children(acc.mem, acc.children))
    IN  routed(delete_route([mem |-> mem, children |-> <<>>, found |-> FALSE,
                             unchanged |-> FALSE],
                            mem[page], 0, table, key))

\* Option<PageNumber> with the store
tree_delete(mem, page, table, key) ==
  LET finish(r) ==
        IF r.res.kind = "Subtree" THEN [mem |-> r.mem, root |-> Some(r.res.page)]
        ELSE IF r.res.kind = "PartialLeaf" THEN [mem |-> r.mem, root |-> None]
        ELSE [mem |-> r.mem, root |-> Some(r.res.pages[1])]
  IN  finish(tree_delete_helper(mem, page, table, key))

\* ---------------------------------------------------------- state machine
Tables == {1, 2}
Keys == {<<1>>, <<2>>, <<3>>}
KeysWithEmpty == {<<>>} \cup Keys
Values == {<<1>>, <<2>>}

VARIABLES
  pages,   \* the page store: pages[p] is the content of page number p
  root,    \* the owner's root page number, 0 when the tree is empty
  ops,     \* number of operations performed in this behaviour
  last,    \* the last operation: its arguments, its input root, its results
  kv,      \* history: the value inserted and not deleted since, per (table, key)
  reader,  \* Option: a reader holding an earlier root and a range iterator on it
  compared \* Option: the arguments of a call of cmp_keys and what it returned

vars == <<pages, root, ops, last, kv, reader, compared>>

NoGuard == [page |-> 0, offset |-> 0, len |-> 0]
NoOp ==
  [op |-> "none", table |-> 0, key |-> <<>>, value |-> <<>>,
   in_root |-> 0, first |-> 1, guard |-> NoGuard, out |-> None]

\* One call of the owner's insert on the state st = [pages, root, last, kv].
\* With no root page to hand to tree_insert, the owner builds the first
\* leaf with make_mut_single_leaf.
DoInsert(st, t, k, v) ==
  LET outcome(r) ==
        [pages |-> r.mem,
         root |-> r.page,
         last |-> [op |-> "insert", table |-> t, key |-> k, value |-> v,
                   in_root |-> st.root, first |-> Len(st.pages) + 1,
                   guard |-> r.guard, out |-> Some(r.page)],
         kv |-> [st.kv EXCEPT ![<<t, k>>] = Some(v)]]
  IN  outcome(IF st.root = 0 THEN make_mut_single_leaf(st.pages, t, k, v)
              ELSE tree_insert(st.pages, st.root, t, k, v))

\* One call of tree_delete on the root page.
DoDelete(st, t, k) ==
  LET outcome(r) ==
        [pages |-> r.mem,
         root |-> IF IsSome(r.root) THEN Unwrap(r.root) ELSE 0,
         last |-> [op |-> "delete", table |-> t, key |-> k, value |-> <<>>,
                   in_root |-> st.root, first |-> Len(st.pages) + 1,
                   guard |-> NoGuard, out |-> r.root],
         kv |-> [st.kv EXCEPT ![<<t, k>>] = None]]
  IN  outcome(tree_delete(st.pages, st.root, t, k))

Empty ==
  [pages |-> <<>>, root |-> 0, last |-> NoOp, kv |-> [c \in (Tables \cup ReversedTables) \X KeysWithEmpty |-> None]]

\* The database a behaviour starts on: empty, or what earlier inserts
\* (each a DoInsert from the empty store, in the order given) left behind.
\*   Seeds[2]: a root with the three leaves [(1,1) (1,3)] [(2,1)] [(2,3)]
\*   Seeds[3]: height 3, leaves [(1,1) (1,3)] [(2,1)] | [(2,2)] [(2,3)]
Seeds ==
  << <<>>,
     << <<1, <<1>>>>, <<2, <<3>>>>, <<2, <<1>>>>, <<1, <<3>>>> >>,
     << <<1, <<1>>>>, <<2, <<3>>>>, <<2, <<2>>>>, <<2, <<1>>>>, <<1, <<3>>>> >> >>

RECURSIVE Build(_)
Build(s) ==
  IF s = <<>> THEN Empty
  ELSE LET e == s[Len(s)]
       IN  DoInsert(Build(SubSeq(s, 1, Len(s) - 1)), e[1], e[2], <<1>>)

\* A behaviour starts on the database st with no operation made yet.
StartsOn(st) ==
  /\ pages = st.pages
  /\ root = st.root
  /\ ops = 0
  /\ last = NoOp
  /\ kv = st.kv
  /\ reader = None
  /\ compared = None

Init == \E i \in 1..Len(Seeds) : StartsOn(Build(Seeds[i]))

Cur == [pages |-> pages, root |-> root, last |-> last, kv |-> kv]

\* The owner takes over the outcome st of a call.
Becomes(st) ==
  /\ pages' = st.pages
  /\ root' = st.root
  /\ last' = st.last
  /\ kv' = st.kv

Insert(t, k, v) ==
  /\ ops < MaxOps
  /\ Becomes(DoInsert(Cur, t, k, v))
  /\ ops' = ops + 1
  /\ UNCHANGED <<reader, compared>>

Delete(t, k) ==
  /\ root # 0
  /\ ops < MaxOps
  /\ Becomes(DoDelete(Cur, t, k))
  /\ ops' = ops + 1
  /\ UNCHANGED <<reader, compared>>

Next ==
  \/ \E t \in Tables, k \in Keys, v \in Values : Insert(t, k, v)
  \/ \E t \in Tables, k \in Keys : Delete(t, k)

Spec == Init /\ [][Next]_vars

\* The same behaviours, named apart for the claims about range queries, whose
\* formulas run every range over every table in every state.
SpecRange == Init /\ [][Next]_vars

\* The same behaviours again, named apart for the claims about the shape of
\* the tree (SpecShape), about its height (SpecHeight), about the order of
\* its keys (SpecOrder), about the guard an insert returns (SpecGuard),
\* about panics (SpecPanic), about the passes of the range iterator
\* (SpecPass), about the pages an insert writes (SpecInsert) and about
\* the routing through internal pages (SpecRoute).
SpecShape == Init /\ [][Next]_vars
SpecOrder == Init /\ [][Next]_vars
SpecPanic == Init /\ [][Next]_vars
SpecHeight == Init /\ [][Next]_vars
SpecPass == Init /\ [][Next]_vars
SpecInsert == Init /\ [][Next]_vars
SpecRoute == Init /\ [][Next]_vars
SpecGuard == Init /\ [][Next]_vars

\* --------------------------------------------------------- range iterator
\* RangeIterState.  A state with its chain of boxed parents is the sequence
\* of frames from the current one outwards; Option<RangeIterState> is that
\* sequence, empty for None.
InitialState(page, reversed) ==
  [kind |-> "InitialState", page |-> page, child |-> 0, reversed |-> reversed]
LeafLeft(page, reversed) ==
  [kind |-> "LeafLeft", page |-> page, child |-> 0, reversed |-> reversed]
LeafRight(page, reversed) ==
  [kind |-> "LeafRight", page |-> page, child |-> 0, reversed |-> reversed]
Internal(page, child, reversed) ==
  [kind |-> "Internal", page |-> page, child |-> child, reversed |-> reversed]

\* forward_next queueing the next sibling below the middle slot only: the
\* last child slot of a full page is never descended.
M_forward_next_short(mem, state) ==
  LET f == Head(state)
      parent == Tail(state)
  IN
  IF f.kind = "InitialState" THEN
    IF mem[f.page].tag = LEAF THEN <<LeafLeft(f.page, FALSE)>>
    ELSE <<Internal(f.page, 0, FALSE)>>
  ELSE IF f.kind = "LeafLeft" THEN <<LeafRight(f.page, FALSE)>> \o parent
  ELSE IF f.kind = "LeafRight" THEN parent
  ELSE
    LET pg == mem[f.page]
        child_pg == Unwrap(child_page(pg, f.child))
        parent2 == IF f.child < BTREE_ORDER - 2 /\ IsSome(child_page(pg, f.child + 1))
                     THEN <<Internal(f.page, f.child + 1, FALSE)>> \o parent
                     ELSE parent
    IN  IF mem[child_pg].tag = LEAF THEN <<LeafLeft(child_pg, FALSE)>> \o parent2
        ELSE <<Internal(child_pg, 0, FALSE)>> \o parent2

forward_next(mem, state) ==
  LET f == Head(state)
      parent == Tail(state)
  IN
  IF f.kind = "InitialState" THEN
    IF mem[f.page].tag = LEAF THEN <<LeafLeft(f.page, FALSE)>>
    ELSE <<Internal(f.page, 0, FALSE)>>
  ELSE IF f.kind = "LeafLeft" THEN <<LeafRight(f.page, FALSE)>> \o parent
  ELSE IF f.kind = "LeafRight" THEN parent
  ELSE
    LET pg == mem[f.page]
        child_pg == Unwrap(child_page(pg, f.child))
        parent2 == IF f.child < BTREE_ORDER - 1 /\ IsSome(child_page(pg, f.child + 1))
                     THEN <<Internal(f.page, f.child + 1, FALSE)>> \o parent
                     ELSE parent
    IN  IF mem[child_pg].tag = LEAF THEN <<LeafLeft(child_pg, FALSE)>> \o parent2
        ELSE <<Internal(child_pg, 0, FALSE)>> \o parent2


\* last_child_index scanning the slots upwards: the first present child.
M_last_child_index(pg) ==
  LET S == {i \in 0..(BTREE_ORDER - 1) : IsSome(child_page(pg, i))}
  IN  IF S = {} THEN 0 ELSE CHOOSE i \in S : \A j \in S : i <= j

\* for i in (0..BTREE_ORDER).rev(): the greatest i with child_page(i)
\* present, 0 when the loop finds none
last_child_index(pg) ==
  LET S == {i \in 0..(BTREE_ORDER - 1) : IsSome(child_page(pg, i))}
  IN  IF S = {} THEN 0 ELSE CHOOSE i \in S : \A j \in S : j <= i

backward_next(mem, state) ==
  LET f == Head(state)
      parent == Tail(state)
  IN
  IF f.kind = "InitialState" THEN
    IF mem[f.page].tag = LEAF THEN <<LeafRight(f.page, TRUE)>>
    ELSE <<Internal(f.page, last_child_index(mem[f.page]), TRUE)>>
  ELSE IF f.kind = "LeafLeft" THEN parent
  ELSE IF f.kind = "LeafRight" THEN <<LeafLeft(f.page, TRUE)>> \o parent
  ELSE
    LET pg == mem[f.page]
        child_pg == Unwrap(child_page(pg, f.child))
        parent2 == IF f.child > 0
                     THEN <<Internal(f.page, f.child - 1, TRUE)>> \o parent
                     ELSE parent
    IN  IF mem[child_pg].tag = LEAF THEN <<LeafRight(child_pg, TRUE)>> \o parent2
        ELSE <<Internal(child_pg, last_child_index(mem[child_pg]), TRUE)>> \o parent2

\* RangeIterState::next
state_next(mem, state) ==
  IF Head(state).reversed THEN backward_next(mem, state) ELSE forward_next(mem, state)

\* Option<EntryAccessor>
get_entry(mem, state) ==
  LET f == Head(state) IN
  IF f.kind = "LeafLeft" THEN Some(leaf_lesser(mem[f.page]))
  ELSE IF f.kind = "LeafRight" THEN leaf_greater(mem[f.page])
  ELSE None

\* std::ops::Bound
Unbounded == [kind |-> "Unbounded", key |-> <<>>]
Included(k) == [kind |-> "Included", key |-> k]
Excluded(k) == [kind |-> "Excluded", key |-> k]
Range(s, e) == [start |-> s, end |-> e]

bound_contains_key(range, key) ==
  /\ ~(range.start.kind = "Included" /\ KCompare(key, range.start.key) = Less)
  /\ ~(range.start.kind = "Excluded" /\ KCompare(key, range.start.key) # Greater)
  /\ ~(range.end.kind = "Included" /\ KCompare(key, range.end.key) = Greater)
  /\ ~(range.end.kind = "Excluded" /\ KCompare(key, range.end.key) # Less)

\* BtreeRangeIter::new / new_reversed; rt = 0 is root_page = None
BtreeRangeIter_new(rt, table_id, query_range) ==
  [last |-> IF rt = 0 THEN None ELSE <<InitialState(rt, FALSE)>>,
   table_id |-> table_id, query_range |-> query_range, reversed |-> FALSE]
BtreeRangeIter_new_reversed(rt, table_id, query_range) ==
  [last |-> IF rt = 0 THEN None ELSE <<InitialState(rt, TRUE)>>,
   table_id |-> table_id, query_range |-> query_range, reversed |-> TRUE]


\* past_bound comparing the key bytes alone, without the table id.
M_past_bound(it, entry) ==
  IF it.reversed
    THEN \/ /\ it.query_range.start.kind = "Included"
            /\ KCompare(entry.key, it.query_range.start.key) = Less
         \/ /\ it.query_range.start.kind = "Excluded"
            /\ KCompare(entry.key, it.query_range.start.key) # Greater
    ELSE \/ /\ it.query_range.end.kind = "Included"
            /\ KCompare(entry.key, it.query_range.end.key) = Greater
         \/ /\ it.query_range.end.kind = "Excluded"
            /\ KCompare(entry.key, it.query_range.end.key) # Less

\* The entry has left the range in the direction of travel.
past_bound(it, entry) ==
  IF it.reversed
    THEN \/ /\ it.query_range.start.kind = "Included"
            /\ entry_compare(entry, it.table_id, it.query_range.start.key) = Less
         \/ /\ it.query_range.start.kind = "Excluded"
            /\ entry_compare(entry, it.table_id, it.query_range.start.key) # Greater
    ELSE \/ /\ it.query_range.end.kind = "Included"
            /\ entry_compare(entry, it.table_id, it.query_range.end.key) = Greater
         \/ /\ it.query_range.end.kind = "Excluded"
            /\ entry_compare(entry, it.table_id, it.query_range.end.key) # Less

\* A loop that keeps the cursor when it stops at an entry past the bound.
RECURSIVE M_iter_loop_keep(_, _, _)
M_iter_loop_keep(mem, it, state) ==
  LET new_state == state_next(mem, state) IN
  IF new_state = <<>> THEN [it |-> [it EXCEPT !.last = None], entry |-> None]
  ELSE
    LET e == get_entry(mem, new_state) IN
    IF IsSome(e) THEN
      IF it.table_id = Unwrap(e).table /\ bound_contains_key(it.query_range, Unwrap(e).key)
        THEN [it |-> [it EXCEPT !.last = new_state], entry |-> e]
      ELSE IF past_bound(it, Unwrap(e))
        THEN [it |-> [it EXCEPT !.last = new_state], entry |-> None]
      ELSE M_iter_loop_keep(mem, it, new_state)
    ELSE M_iter_loop_keep(mem, it, new_state)

\* The loop of BtreeRangeIter::next from `state` on (self.last has been
\* taken): the iterator after the call and the entry returned.
RECURSIVE iter_loop(_, _, _)
iter_loop(mem, it, state) ==
  LET new_state == state_next(mem, state) IN
  IF new_state = <<>> THEN [it |-> [it EXCEPT !.last = None], entry |-> None]
  ELSE
    LET e == get_entry(mem, new_state) IN
    IF IsSome(e) THEN
      IF it.table_id = Unwrap(e).table /\ bound_contains_key(it.query_range, Unwrap(e).key)
        THEN [it |-> [it EXCEPT !.last = new_state], entry |-> e]
      ELSE IF past_bound(it, Unwrap(e))
        THEN [it |-> [it EXCEPT !.last = None], entry |-> None]
      ELSE iter_loop(mem, it, new_state)
    ELSE iter_loop(mem, it, new_state)

BtreeRangeIter_next(mem, it) ==
  IF it.last = None THEN [it |-> it, entry |-> None]
  ELSE iter_loop(mem, [it EXCEPT !.last = None], it.last)

\* Every entry the iterator returns, in order, until its first None.
RECURSIVE Drain(_, _)
Drain(mem, it) ==
  LET r == BtreeRangeIter_next(mem, it) IN
  IF IsSome(r.entry) THEN <<Unwrap(r.entry)>> \o Drain(mem, r.it) ELSE <<>>

\* ------------------------------------------------------------------ claims
Found(rt, t, k) == IsSome(LookupValue(pages, rt, t, k))
OtherKeys == {c \in Tables \X Keys : c # <<last.table, last.key>>}

\* C1: after an insert of (table, key, value) with a non-empty key, lookup of
\* (table, key) in the returned root yields a handle whose bytes are value.
C1_LookupAfterInsert ==
  (last.op = "insert" /\ Len(last.key) > 0)
    => LookupValue(pages, root, last.table, last.key) = Some(last.value)

\* An insert by tree_insert below an internal root that already held the key's
\* table and other entries.
C1_Witness ==
  /\ last.op = "insert"
  /\ last.in_root # 0
  /\ pages[last.in_root].tag = INTERNAL
  /\ LookupValue(pages, root, last.table, last.key) = Some(last.value)

\* C2: after a delete of (table, key), every other (table', key') that lookup
\* found in the input root is found in the returned root with the same value.
C2_DeleteKeepsOthers ==
  last.op = "delete"
    => \A c \in OtherKeys :
         Found(last.in_root, c[1], c[2])
           => LookupValue(pages, root, c[1], c[2])
                = LookupValue(pages, last.in_root, c[1], c[2])

\* C3: after a delete of (table, key), lookup of (table, key) in the returned
\* root is absent; so is lookup on the empty-tree outcome.
C3_LookupAfterDelete ==
  last.op = "delete" => LookupValue(pages, root, last.table, last.key) = None

\* A delete of a key that was present, below an internal root, leaving a
\* non-empty tree.
C3_Witness ==
  /\ last.op = "delete"
  /\ Found(last.in_root, last.table, last.key)
  /\ pages[last.in_root].tag = INTERNAL
  /\ root # 0
  /\ LookupValue(pages, root, last.table, last.key) = None

\* C5: after an insert of (table, key), every other (table', key') that lookup
\* found in the input root is found in the new root with the same value.
C5_InsertKeepsOthers ==
  last.op = "insert"
    => \A c \in OtherKeys :
         (last.in_root # 0 /\ Found(last.in_root, c[1], c[2]))
           => LookupValue(pages, root, c[1], c[2])
                = LookupValue(pages, last.in_root, c[1], c[2])

\* An insert that split a leaf and the internal root above it (the tree grew
\* by a level) while other entries were stored.
C5_Witness ==
  /\ last.op = "insert"
  /\ last.in_root # 0
  /\ pages[last.in_root].tag = INTERNAL
  /\ tree_height(pages, root) = tree_height(pages, last.in_root) + 1
  /\ \E c \in OtherKeys : Found(root, c[1], c[2])

\* C10: a delete of a (table, key) that lookup does not find returns Some(p)
\* with p the input root page number.
C10_AbsentDeleteSameRoot ==
  (last.op = "delete" /\ ~Found(last.in_root, last.table, last.key))
    => last.out = Some(last.in_root)

\* A delete of an absent key routed through two levels of internal pages.
C10_Witness ==
  /\ last.op = "delete"
  /\ ~Found(last.in_root, last.table, last.key)
  /\ tree_height(pages, last.in_root) = 3
  /\ last.out = Some(last.in_root)

\* The entries stored in the leaves under page rt (none for rt = 0).
RECURSIVE TreeEntries(_, _)
TreeEntries(mem, rt) ==
  IF rt = 0 THEN {}
  ELSE IF mem[rt].tag = LEAF
    THEN {leaf_lesser(mem[rt])}
           \cup (IF IsSome(leaf_greater(mem[rt])) THEN {Unwrap(leaf_greater(mem[rt]))} ELSE {})
  ELSE UNION {TreeEntries(mem, present_children(mem[rt])[i]) :
                i \in 1..Len(present_children(mem[rt]))}

\* A finite set of entries as the sequence ascending in the (table, key) order.
RECURSIVE Ascending(_)
Ascending(S) ==
  IF S = {} THEN <<>>
  ELSE LET m == CHOOSE x \in S :
                  \A y \in S : cmp_keys(x.table, x.key, y.table, y.key) # Greater
       IN  <<m>> \o Ascending(S \ {m})

Reverse(s) == [i \in 1..Len(s) |-> s[Len(s) + 1 - i]]

Bounds == {Unbounded} \cup {Included(k) : k \in Keys} \cup {Excluded(k) : k \in Keys}
Ranges == {Range(b, e) : b \in Bounds, e \in Bounds}
FullRange == Range(Unbounded, Unbounded)

Forward(rt, t, range) == Drain(pages, BtreeRangeIter_new(rt, t, range))
Backward(rt, t, range) == Drain(pages, BtreeRangeIter_new_reversed(rt, t, range))

\* The entries inserted and not deleted since, of table t.
Live(t) == {Entry(t, k, Unwrap(kv[<<t, k>>])) : k \in {k \in Keys : IsSome(kv[<<t, k>>])}}

\* C4: an insert of a (table, key) already stored leaves lookup returning the
\* new value, the key exactly once in the unbounded range over its table, and
\* tree_height as it was.
C4_InsertOverwrite ==
  (last.op = "insert" /\ last.in_root # 0 /\ Found(last.in_root, last.table, last.key))
    => /\ LookupValue(pages, root, last.table, last.key) = Some(last.value)
       /\ LET s == Forward(root, last.table, FullRange)
          IN  Cardinality({i \in 1..Len(s) : s[i].key = last.key}) = 1
       /\ tree_height(pages, root) = tree_height(pages, last.in_root)

\* An overwrite with a different value below an internal root.
C4_Witness ==
  /\ last.op = "insert"
  /\ last.in_root # 0
  /\ pages[last.in_root].tag = INTERNAL
  /\ Found(last.in_root, last.table, last.key)
  /\ LookupValue(pages, last.in_root, last.table, last.key) # Some(last.value)
  /\ LookupValue(pages, root, last.table, last.key) = Some(last.value)

\* C6: the unbounded forward range over table t yields exactly the entries of
\* t inserted and not deleted since, each once, in ascending key order.
C6_RangeComplete ==
  \A t \in Tables : Forward(root, t, FullRange) = Ascending(Live(t))

\* C7: for every table and every pair of bounds the forward iterator yields
\* exactly the stored entries of the table whose key satisfies both bounds, in
\* ascending order.
C7_BoundedRanges ==
  LET stored == TreeEntries(pages, root) IN
  \A t \in Tables, r \in Ranges :
    Forward(root, t, r)
      = Ascending({e \in stored : e.table = t /\ bound_contains_key(r, e.key)})

\* A tree of height 3 holding several entries of a table, of which a range
\* with two bounds takes a proper non-empty part, the iterator stopping at an
\* entry of the same table past the end bound.
C7_Witness ==
  /\ last.op = "delete"
  /\ root # 0
  /\ tree_height(pages, root) = 3
  /\ \E t \in Tables, r \in Ranges :
       /\ r.start.kind # "Unbounded"
       /\ r.end.kind # "Unbounded"
       /\ Len(Forward(root, t, r)) >= 1
       /\ Len(Forward(root, t, r)) < Len(Forward(root, t, Range(r.start, Unbounded)))

\* C8: the reversed iterator yields the reversal of what the forward iterator
\* yields, for every table and range.
C8_ReverseIsReversal ==
  \A t \in Tables, r \in Ranges : Backward(root, t, r) = Reverse(Forward(root, t, r))

\* A bounded range of at least two entries over a tree of height 3.
C8_Witness ==
  /\ last.op = "insert"
  /\ root # 0
  /\ tree_height(pages, root) = 3
  /\ \E t \in Tables, r \in Ranges :
       /\ r.start.kind # "Unbounded"
       /\ Len(Backward(root, t, r)) >= 2
       /\ Backward(root, t, r) = Reverse(Forward(root, t, r))

\* C9: lookup(t, k) returns only the value inserted under table t, a range
\* over t yields only entries of table t, and an insert or delete of (t, k)
\* leaves lookup(t', k) as it was for every t' # t.
C9_TableIsolation ==
  /\ \A t \in Tables, k \in Keys :
       Found(root, t, k) => LookupValue(pages, root, t, k) = kv[<<t, k>>]
  /\ \A t \in Tables :
       LET s == Forward(root, t, FullRange) IN \A i \in 1..Len(s) : s[i].table = t
  /\ last.op \in {"insert", "delete"}
       => \A t \in Tables \ {last.table} :
            LookupValue(pages, root, t, last.key)
              = LookupValue(pages, last.in_root, t, last.key)

\* C11: when a delete of (table, key) has left a root, deleting (table, key)
\* again from that root returns the same root page number, and the entries
\* stored under the returned root are those stored before the second delete.
C11_IdempotentDelete ==
  (last.op = "delete" /\ root # 0)
    => LET again == tree_delete(pages, root, last.table, last.key) IN
       /\ again.root = Some(root)
       /\ TreeEntries(again.mem, Unwrap(again.root)) = TreeEntries(pages, root)

\* A delete that removed an entry from a tree with internal pages and left
\* an internal root, which the second delete descends again.
C11_Witness ==
  /\ last.op = "delete"
  /\ Found(last.in_root, last.table, last.key)
  /\ root # 0
  /\ pages[root].tag = INTERNAL
  /\ TreeEntries(pages, root) # {}

\* C12: tree_delete returns None exactly when the deleted entry was the last
\* one inserted and not deleted; otherwise it returns Some(root).
C12_EmptyOutcome ==
  last.op = "delete"
    => (last.out = None <=> \A c \in Tables \X Keys : kv[c] = None)

\* The pages reachable from page rt through child slots (none for rt = 0).
RECURSIVE Reach(_, _)
Reach(mem, rt) ==
  IF rt = 0 THEN {}
  ELSE IF mem[rt].tag = LEAF THEN {rt}
  ELSE {rt} \cup UNION {Reach(mem, present_children(mem[rt])[i]) :
                          i \in 1..Len(present_children(mem[rt]))}

\* The depths, counted from page rt at depth d, at which leaves are found.
RECURSIVE LeafDepths(_, _, _)
LeafDepths(mem, rt, d) ==
  IF mem[rt].tag = LEAF THEN {d}
  ELSE UNION {LeafDepths(mem, present_children(mem[rt])[i], d + 1) :
                i \in 1..Len(present_children(mem[rt]))}

InternalNodes(mem, rt) == {p \in Reach(mem, rt) : mem[p].tag = INTERNAL}
LeafNodes(mem, rt) == {p \in Reach(mem, rt) : mem[p].tag = LEAF}

\* C13: all leaves of the tree are at the same depth from the root.
C13_EqualLeafDepth ==
  root # 0 => Cardinality(LeafDepths(pages, root, 0)) = 1

\* A tree of height 3 left by a delete that rebuilt internal pages.
C13_Witness ==
  /\ last.op = "delete"
  /\ Found(last.in_root, last.table, last.key)
  /\ root # 0
  /\ root # last.in_root
  /\ LeafDepths(pages, root, 0) = {2}

\* C14: every internal page of the tree has at least 2 and at most
\* BTREE_ORDER present children.
C14_InternalFanOut ==
  \A p \in InternalNodes(pages, root) :
    /\ Len(present_children(pages[p])) >= 2
    /\ Len(present_children(pages[p])) <= BTREE_ORDER

\* C15: every leaf of the tree holds 1 or 2 entries (the lesser slot is
\* written, with a non-empty key), and with 2 entries the lesser is strictly
\* below the greater in the (table, key) order.
C15_LeafOccupancy ==
  \A p \in LeafNodes(pages, root) :
    /\ entry_key_len(leaf_lesser(pages[p])) > 0
    /\ IsSome(leaf_greater(pages[p]))
         => entry_compare(leaf_lesser(pages[p]),
                          Unwrap(leaf_greater(pages[p])).table,
                          Unwrap(leaf_greater(pages[p])).key) = Less

\* C16: for every internal page of the tree and every present separator n,
\* every entry under child n is at or below the separator and every entry
\* under child n + 1 is strictly above it, in the (table, key) order.
C16_Separators ==
  \A p \in InternalNodes(pages, root) :
    \A n \in 0..(BTREE_ORDER - 2) :
      IsSome(internal_table_id(pages[p], n))
        => LET st == Unwrap(internal_table_id(pages[p], n))
               sk == Unwrap(internal_key(pages[p], n))
           IN  /\ IsSome(child_page(pages[p], n))
               /\ IsSome(child_page(pages[p], n + 1))
               /\ \A e \in TreeEntries(pages, Unwrap(child_page(pages[p], n))) :
                    cmp_keys(e.table, e.key, st, sk) # Greater
               /\ \A e \in TreeEntries(pages, Unwrap(child_page(pages[p], n + 1))) :
                    cmp_keys(e.table, e.key, st, sk) = Greater

\* An internal page of 2 children built by a delete that removed an entry.
C14_Witness ==
  /\ last.op = "delete"
  /\ Found(last.in_root, last.table, last.key)
  /\ \E p \in InternalNodes(pages, root) :
       p >= last.first /\ Len(present_children(pages[p])) = 2

\* A leaf of 2 entries written by an insert into a tree with internal pages.
C15_Witness ==
  /\ last.op = "insert"
  /\ pages[root].tag = INTERNAL
  /\ \E p \in LeafNodes(pages, root) :
       p >= last.first /\ IsSome(leaf_greater(pages[p]))

\* An internal page with both separators present, built by a delete.
C16_Witness ==
  /\ last.op = "delete"
  /\ Found(last.in_root, last.table, last.key)
  /\ \E p \in InternalNodes(pages, root) :
       /\ p >= last.first
       /\ IsSome(internal_table_id(pages[p], 0))
       /\ IsSome(internal_table_id(pages[p], 1))

\* C17: an operation writes only pages it allocated: every page that existed
\* before a step has the same content after it, and the store has not shrunk.
C17_CopyOnWrite ==
  [][/\ Len(pages') >= Len(pages)
     /\ \A p \in 1..Len(pages) : pages'[p] = pages[p]]_vars

\* An operation on a tree with internal pages that wrote several pages.
C17_Witness ==
  /\ last.op \in {"insert", "delete"}
  /\ last.in_root # 0
  /\ pages[last.in_root].tag = INTERNAL
  /\ Len(pages) > last.first


\* ------------------------------------------------------------------ reader
\* A reader of an earlier root.  Before the writer's first operation it
\* takes the owner's root and a range iterator on it (BtreeRangeIter::new /
\* new_reversed), then calls next() on the iterator between the writer's
\* operations, each call reading the store as it is at that moment.  snap
\* and seen are history: the entries stored under the root when it was
\* taken, and the entries next() has returned so far.
\* The iterators a reader opens, as <<range, reversed>>.
ReaderQueries ==
  {<<FullRange, FALSE>>,
   <<Range(Included(<<1>>), Excluded(<<3>>)), TRUE>>,
   <<Range(Excluded(<<1>>), Included(<<2>>)), FALSE>>}

Holds(rt, it, snap) ==
  reader' = Some([rt |-> rt, it |-> it, snap |-> snap, seen |-> <<>>, done |-> FALSE])

ReaderOpen(t, range, reversed) ==
  /\ reader = None
  /\ ops = 0
  /\ root # 0
  /\ Holds(root,
           IF reversed THEN BtreeRangeIter_new_reversed(root, t, range)
                       ELSE BtreeRangeIter_new(root, t, range),
           TreeEntries(pages, root))
  /\ UNCHANGED <<pages, root, ops, last, kv, compared>>

Stepped(rd, r) ==
  reader' = Some([rd EXCEPT !.it = r.it,
                            !.seen = IF IsSome(r.entry) THEN Append(@, Unwrap(r.entry)) ELSE @,
                            !.done = ~IsSome(r.entry)])

ReaderNext ==
  /\ reader # None
  /\ ~Unwrap(reader).done
  /\ Stepped(Unwrap(reader), BtreeRangeIter_next(pages, Unwrap(reader).it))
  /\ UNCHANGED <<pages, root, ops, last, kv, compared>>

NextReader ==
  \/ Next
  \/ \E t \in Tables, q \in ReaderQueries : ReaderOpen(t, q[1], q[2])
  \/ ReaderNext

\* The writer and one reader of an earlier root, interleaved in every way.
SpecReader == Init /\ [][NextReader]_vars

\* What a range iterator over the entries of snap has to return in all.
Expected(snap, it) ==
  LET asc == Ascending({e \in snap : /\ e.table = it.table_id
                                     /\ bound_contains_key(it.query_range, e.key)})
  IN  IF it.reversed THEN Reverse(asc) ELSE asc

\* C18: a reader holding an earlier root, whatever the writer has done since,
\* finds by lookup exactly the entries that were stored under that root when
\* it took it, and its range iterator, stepped between the writer's
\* operations, returns exactly those of them in its table and range, in order.
C18_HistoricalSnapshot ==
  reader # None =>
    LET rd == Unwrap(reader)
        want == Expected(rd.snap, rd.it)
    IN  /\ \A t \in Tables, k \in Keys :
             LET hit == {e \in rd.snap : e.table = t /\ e.key = k} IN
             LookupValue(pages, rd.rt, t, k)
               = IF hit = {} THEN None ELSE Some((CHOOSE e \in hit : TRUE).value)
        /\ Len(rd.seen) <= Len(want)
        /\ rd.seen = SubSeq(want, 1, Len(rd.seen))
        /\ rd.done => rd.seen = want

\* The reader has taken the root of a tree of several levels and stepped its
\* iterator before and after operations of the writer that replaced that
\* root and changed what the table holds; the iterator is exhausted.
C18_Witness ==
  /\ reader # None
  /\ Unwrap(reader).done
  /\ Len(Unwrap(reader).seen) >= 2
  /\ pages[Unwrap(reader).rt].tag = INTERNAL
  /\ root # Unwrap(reader).rt
  /\ Unwrap(reader).it.last = None
  /\ Unwrap(reader).seen # Expected(TreeEntries(pages, root), Unwrap(reader).it)


\* The slots of leaf page pg that hold the entry (t, k), each as the region
\* <<offset, len>> of its value within the page.
ValueRegions(pg, t, k) ==
  (IF entry_compare(leaf_lesser(pg), t, k) = Equal
     THEN {<<offset_of_lesser + entry_value_offset(leaf_lesser(pg)),
             entry_value_len(leaf_lesser(pg))>>}
     ELSE {})
  \cup
  (IF IsSome(leaf_greater(pg)) /\ entry_compare(Unwrap(leaf_greater(pg)), t, k) = Equal
     THEN {<<offset_of_greater(pg) + entry_value_offset(Unwrap(leaf_greater(pg))),
             entry_value_len(Unwrap(leaf_greater(pg)))>>}
     ELSE {})

\* C19: the guard returned by an insert is on a leaf page reachable from the
\* returned root, and its offset and length are those of the value of the
\* entry (table, key) just inserted in that page, whose bytes are the value.
C19_GuardTarget ==
  last.op = "insert" =>
    /\ last.guard.page \in LeafNodes(pages, root)
    /\ <<last.guard.offset, last.guard.len>>
         \in ValueRegions(pages[last.guard.page], last.table, last.key)
    /\ last.guard.len = Len(last.value)
    /\ PageBytes(pages[last.guard.page], last.guard.offset, last.guard.len) = last.value

\* A new key between the two entries of a full leaf below an internal root:
\* the leaf is split and the guard is on the greater slot of its left half.
C19_Witness ==
  /\ last.op = "insert"
  /\ last.in_root # 0
  /\ pages[last.in_root].tag = INTERNAL
  /\ ~Found(last.in_root, last.table, last.key)
  /\ last.guard.page \in LeafNodes(pages, root)
  /\ last.guard.offset = offset_of_greater(pages[last.guard.page])
                           + entry_value_offset(pages[last.guard.page].greater)
  /\ Len(pages) >= last.first + 2
  /\ PageBytes(pages[last.guard.page], last.guard.offset, last.guard.len) = last.value


\* C20: the page of the guard returned by an insert was allocated by that
\* insert: it did not exist before, and it is reachable neither from the
\* input root nor from any page that existed before the insert, the roots
\* returned by earlier operations among them.
C20_GuardNotAliased ==
  last.op = "insert" =>
    /\ last.guard.page >= last.first
    /\ last.guard.page <= Len(pages)
    /\ last.in_root # 0 => last.guard.page \notin Reach(pages, last.in_root)
    /\ \A p \in 1..(last.first - 1) : last.guard.page \notin Reach(pages, p)

\* An overwrite of a stored key below an internal root, after an earlier
\* operation that returned another root: the value is written on a new page.
C20_Witness ==
  /\ last.op = "insert"
  /\ ops >= 2
  /\ last.in_root # 0
  /\ pages[last.in_root].tag = INTERNAL
  /\ Found(last.in_root, last.table, last.key)
  /\ last.guard.page >= last.first
  /\ last.guard.page \in Reach(pages, root)


\* The (table, key) pairs inserted so far, by the seeding inserts or since:
\* every insert writes its entry on a new leaf page and no page is freed, so
\* they are the keys found on the leaf pages of the store.
EverInserted ==
  UNION {{<<leaf_lesser(pages[p]).table, leaf_lesser(pages[p]).key>>}
           \cup (IF IsSome(leaf_greater(pages[p]))
                   THEN {<<Unwrap(leaf_greater(pages[p])).table,
                           Unwrap(leaf_greater(pages[p])).key>>}
                   ELSE {})
         : p \in {q \in 1..Len(pages) : pages[q].tag = LEAF}}

\* ceil(log2 n) for n >= 1
RECURSIVE CeilLog2(_)
CeilLog2(n) == IF n <= 1 THEN 0 ELSE 1 + CeilLog2((n + 1) \div 2)

\* C21: with N distinct keys inserted so far, some of them deleted since, the
\* height of a non-empty tree is at most ceil(log2 N) + 2.
C21_HeightBound ==
  root # 0 => tree_height(pages, root) <= CeilLog2(Cardinality(EverInserted)) + 2

\* A tree of height 3 left by a delete that removed a key, so that fewer
\* entries are stored than keys were inserted.
C21_Witness ==
  /\ last.op = "delete"
  /\ Found(last.in_root, last.table, last.key)
  /\ root # 0
  /\ tree_height(pages, root) = 3
  /\ Cardinality(TreeEntries(pages, root)) < Cardinality(EverInserted)


\* Pages allocated by the last operation.
Allocated == Len(pages) - (last.first - 1)

\* C22 as stated: every insert, and every delete of a stored key, allocates
\* at least as many pages as the height of the tree it was applied to, the
\* length of the path from the root to the modified leaf.
C22_CowCost ==
  (\/ last.op = "insert" /\ last.in_root # 0
   \/ last.op = "delete" /\ Found(last.in_root, last.table, last.key))
    => Allocated >= tree_height(pages, last.in_root)

\* The leaf of the tree under rt on which lookup finds (t, k).
LeafOf(rt, t, k) == Unwrap(lookup_in_raw(pages, rt, t, k)).page

\* C22, amended: every tree_insert, and every delete of a key stored on a
\* leaf of two entries, allocates at least as many pages as the height of the
\* tree it was applied to.  (A delete that empties a leaf may allocate fewer,
\* and none at all.)
C22_CowCostFullLeaf ==
  (\/ last.op = "insert" /\ last.in_root # 0
   \/ /\ last.op = "delete"
      /\ Found(last.in_root, last.table, last.key)
      /\ IsSome(leaf_greater(pages[LeafOf(last.in_root, last.table, last.key)])))
    => Allocated >= tree_height(pages, last.in_root)

\* A delete of one of the two entries of a leaf of a tree of height 3, which
\* allocated exactly three pages.
C22_Witness ==
  /\ last.op = "delete"
  /\ Found(last.in_root, last.table, last.key)
  /\ IsSome(leaf_greater(pages[LeafOf(last.in_root, last.table, last.key)]))
  /\ tree_height(pages, last.in_root) = 3
  /\ Allocated = 3


\* The children of internal page n as tree_delete_helper hands them to
\* repair_children when the delete went into the child at position i (from
\* 1): a leaf child came back as PartialLeaf with an empty carry, an internal
\* child as PartialInternal carrying its one surviving child (here its
\* first), and every other child as Subtree.
RepairInput(n, i) ==
  LET cs == present_children(pages[n]) IN
  [j \in 1..Len(cs) |->
     IF j # i THEN Subtree(cs[j])
     ELSE IF pages[cs[j]].tag = LEAF THEN PartialLeaf(<<>>)
     ELSE PartialInternal(<<present_children(pages[cs[j]])[1]>>)]

\* The entries under the Subtree pages of a list of child results, with
\* those under the pages carried by its PartialInternal.
InputEntries(children) ==
  UNION {IF children[j].kind = "Subtree" THEN TreeEntries(pages, children[j].page)
         ELSE UNION {TreeEntries(pages, children[j].pages[k]) :
                       k \in 1..Len(children[j].pages)}
         : j \in 1..Len(children)}

OutputEntries(r) == UNION {TreeEntries(r.mem, r.pages[k]) : k \in 1..Len(r.pages)}

\* C23: for every internal page of the tree and every position of the one
\* under-full child among its children, the entries reachable from the pages
\* repair_children returns are those of the Subtree children together with
\* the partial's carry.
C23_RepairKeepsChildren ==
  \A n \in InternalNodes(pages, root) :
    \A i \in 1..Len(present_children(pages[n])) :
      OutputEntries(repair_children(pages, RepairInput(n, i)))
        = InputEntries(RepairInput(n, i))


\* ------------------------------------------------------------------ panics
\* For each operation, the condition under which none of its assert!,
\* assert_eq!, unwrap(), unreachable!() and slice indexings panics.  The
\* operators above give what an operation computes when none of them fires;
\* the operators here follow the same control flow and collect the asserted
\* conditions, each conjunct standing before the values that depend on it.

\* max_table_key: no page on the way down is an internal page without a
\* child (the unreachable!() after its loop).
RECURSIVE max_table_key_ok(_, _)
max_table_key_ok(mem, page) ==
  \/ mem[page].tag = LEAF
  \/ /\ mem[page].tag = INTERNAL
     /\ \E i \in 0..(BTREE_ORDER - 1) : IsSome(child_page(mem[page], i))
     /\ max_table_key_ok(mem, Unwrap(child_page(mem[page], last_child_index(mem[page]))))

\* split_leaf: assert!(partial.is_empty()); the page is read as a leaf.
split_leaf_ok(mem, leaf, partial) ==
  /\ partial = <<>>
  /\ mem[leaf].tag = LEAF

\* merge_leaf: assert!(accessor.greater().is_none()); assert!(partial.is_empty())
merge_leaf_ok(mem, leaf, partial) ==
  /\ mem[leaf].tag = LEAF
  /\ ~IsSome(leaf_greater(mem[leaf]))
  /\ partial = <<>>

\* split_index: assert_eq!(partial.len(), 1); InternalAccessor::new asserts
\* the tag; past the `?`, assert_eq!(pages.len(), 4) after max_table_key of
\* every page in the sort.
split_index_ok(mem, index, partial) ==
  /\ Len(partial) = 1
  /\ mem[index].tag = INTERNAL
  /\ IsSome(child_page(mem[index], BTREE_ORDER - 1))
       => /\ \A i \in 1..Len(partial \o present_children(mem[index])) :
               max_table_key_ok(mem, (partial \o present_children(mem[index]))[i])
          /\ Len(partial \o present_children(mem[index])) = 4

\* merge_index: assert_eq!(partial.len(), 1); the tag;
\* assert!(accessor.child_page(BTREE_ORDER - 1).is_none());
\* assert!(pages.len() <= BTREE_ORDER)
merge_index_ok(mem, index, partial) ==
  /\ Len(partial) = 1
  /\ mem[index].tag = INTERNAL
  /\ ~IsSome(child_page(mem[index], BTREE_ORDER - 1))
  /\ \A i \in 1..Len(partial \o present_children(mem[index])) :
       max_table_key_ok(mem, (partial \o present_children(mem[index]))[i])
  /\ Len(partial \o present_children(mem[index])) <= BTREE_ORDER

\* One repair of repair_children: split_*, and merge_* when it returned None.
repair_with_ok(acc, page_number, partial, kind) ==
  IF kind = "PartialLeaf"
    THEN /\ split_leaf_ok(acc.mem, page_number, partial.entries)
         /\ ~IsSome(split_leaf(acc.mem, page_number, partial.entries).pages)
              => merge_leaf_ok(acc.mem, page_number, partial.entries)
    ELSE /\ split_index_ok(acc.mem, page_number, partial.pages)
         /\ ~IsSome(split_index(acc.mem, page_number, partial.pages).pages)
              => merge_index_ok(acc.mem, page_number, partial.pages)

\* The loop of repair_children from i on, acc as in repair_loop.
RECURSIVE repair_loop_ok(_, _, _, _)
repair_loop_ok(acc, children, i, kind) ==
  IF i >= Len(children) THEN TRUE
  ELSE IF children[i + 1].kind # "Subtree" \/ acc.repaired
    THEN repair_loop_ok(acc, children, i + 1, kind)
  ELSE
    LET page == children[i + 1].page
        has_before == i > 0 /\ children[i].kind = kind
        has_after == i + 1 < Len(children) /\ children[i + 2].kind = kind
        a1 == IF has_before THEN repair_with(acc, page, children[i], kind) ELSE acc
        a2 == IF has_after THEN repair_with(a1, page, children[i + 2], kind) ELSE a1
    IN  /\ has_before => repair_with_ok(acc, page, children[i], kind)
        /\ has_after => repair_with_ok(a1, page, children[i + 2], kind)
        /\ repair_loop_ok(a2, children, i + 1, kind)

\* repair_children: its last else is unreachable!()
repair_children_ok(mem, children) ==
  \/ \A i \in 1..Len(children) : children[i].kind = "Subtree"
  \/ /\ \E i \in 1..Len(children) : children[i].kind = "PartialLeaf"
     /\ repair_loop_ok([mem |-> mem, result |-> <<>>, repaired |-> FALSE],
                       children, 0, "PartialLeaf")
  \/ /\ \A i \in 1..Len(children) : children[i].kind # "PartialLeaf"
     /\ \E i \in 1..Len(children) : children[i].kind = "PartialInternal"
     /\ repair_loop_ok([mem |-> mem, result |-> <<>>, repaired |-> FALSE],
                       children, 0, "PartialInternal")

\* The child result says the key was not found below child.
Untouched(mem, child, table, key) ==
  LET r == tree_delete_helper(mem, child, table, key)
  IN  r.res.kind = "Subtree" /\ r.res.page = child

\* tree_delete_helper: the unwraps of the routing loop, the recursive call,
\* assert!(found), assert!(children.len() > 1), repair_children, and the
\* writing of the repaired children (children[0], max_table_key, and the
\* builder's assert!(n < BTREE_ORDER - 1)).
RECURSIVE tree_delete_helper_ok(_, _, _, _)
tree_delete_helper_ok(mem, page, table, key) ==
  IF mem[page].tag = LEAF THEN TRUE
  ELSE
    LET pg == mem[page]
        last_ok(lvc, found) ==
          /\ IsSome(child_page(pg, lvc))
          /\ found \/ tree_delete_helper_ok(mem, Unwrap(child_page(pg, lvc)), table, key)
        Route[i \in 0..(BTREE_ORDER - 1)] ==
          [found \in BOOLEAN |->
             IF i = BTREE_ORDER - 1 THEN last_ok(i, found)
             ELSE IF IsSome(internal_table_id(pg, i)) THEN
               /\ IsSome(internal_key(pg, i))
               /\ IsSome(child_page(pg, i))
               /\ IF cmp_keys(table, key, Unwrap(internal_table_id(pg, i)),
                              Unwrap(internal_key(pg, i))) # Greater /\ ~found
                    THEN /\ tree_delete_helper_ok(mem, Unwrap(child_page(pg, i)), table, key)
                         /\ \/ Untouched(mem, Unwrap(child_page(pg, i)), table, key)
                            \/ Route[i + 1][TRUE]
                    ELSE Route[i + 1][found]
             ELSE last_ok(i, found)]
        written(rep) ==
          /\ Len(rep.pages) >= 1
          /\ Len(rep.pages) <= BTREE_ORDER
          /\ \A i \in 1..(Len(rep.pages) - 1) : max_table_key_ok(rep.mem, rep.pages[i])
        routed(acc) ==
          acc.unchanged
            \/ /\ acc.found
               /\ Len(acc.children) > 1
               /\ repair_children_ok(acc.mem, acc.children)
               /\ written(repair_children(acc.mem, acc.children))
    IN  /\ Route[0][FALSE]
        /\ routed(delete_route([mem |-> mem, children |-> <<>>, found |-> FALSE,
                                unchanged |-> FALSE],
                               pg, 0, table, key))

\* tree_delete: assert!(entries.is_empty()); assert_eq!(pages.len(), 1)
tree_delete_ok(mem, page, table, key) ==
  /\ tree_delete_helper_ok(mem, page, table, key)
  /\ LET r == tree_delete_helper(mem, page, table, key)
     IN  /\ r.res.kind = "PartialLeaf" => r.res.entries = <<>>
         /\ r.res.kind = "PartialInternal" => Len(r.res.pages) = 1


\* LEAF arm of tree_insert_helper: the debug_assert! of the double-leaf
\* makers (first key below second) and make_mut_double_leaf_right's
\* accessor.greater().unwrap(), which needs the second key non-empty.
insert_leaf_ok(mem, page, table, key) ==
  LET lesser == leaf_lesser(mem[page])
      g == leaf_greater(mem[page])
      right_ok(t1, k1) == cmp_keys(t1, k1, table, key) = Less /\ Len(key) > 0
  IN  IF IsSome(g) THEN
        IF entry_compare(Unwrap(g), table, key) = Less THEN TRUE
        ELSE IF entry_compare(Unwrap(g), table, key) = Equal
          THEN right_ok(lesser.table, lesser.key)
        ELSE IF entry_compare(lesser, table, key) = Less
          THEN right_ok(lesser.table, lesser.key)
        ELSE IF entry_compare(lesser, table, key) = Equal
          THEN cmp_keys(table, key, Unwrap(g).table, Unwrap(g).key) = Less
        ELSE cmp_keys(table, key, lesser.table, lesser.key) = Less
      ELSE
        IF cmp_keys(lesser.table, lesser.key, table, key) = Less
          THEN right_ok(lesser.table, lesser.key)
        ELSE IF cmp_keys(lesser.table, lesser.key, table, key) = Equal THEN TRUE
        ELSE cmp_keys(table, key, lesser.table, lesser.key) = Less

\* tree_insert_helper: the unwraps of the routing loop, the recursive call,
\* guard.unwrap(), assert_eq!(children.len() - 1, index_table_keys.len()),
\* and the indexings children[3], index_table_keys[2] of the split.
RECURSIVE tree_insert_helper_ok(_, _, _, _, _)
tree_insert_helper_ok(mem, page, table, key, value) ==
  IF mem[page].tag = LEAF THEN insert_leaf_ok(mem, page, table, key)
  ELSE
    LET pg == mem[page]
        last_ok(lvc, found) ==
          /\ IsSome(child_page(pg, lvc))
          /\ found \/ tree_insert_helper_ok(mem, Unwrap(child_page(pg, lvc)),
                                            table, key, value)
        Route[i \in 0..(BTREE_ORDER - 1)] ==
          [found \in BOOLEAN |->
             IF i = BTREE_ORDER - 1 THEN last_ok(i, found)
             ELSE IF IsSome(internal_table_id(pg, i)) THEN
               /\ IsSome(internal_key(pg, i))
               /\ IsSome(child_page(pg, i))
               /\ IF cmp_keys(table, key, Unwrap(internal_table_id(pg, i)),
                              Unwrap(internal_key(pg, i))) # Greater /\ ~found
                    THEN /\ tree_insert_helper_ok(mem, Unwrap(child_page(pg, i)),
                                                  table, key, value)
                         /\ Route[i + 1][TRUE]
                    ELSE Route[i + 1][found]
             ELSE last_ok(i, found)]
        written(acc) ==
          /\ IsSome(acc.guard)
          /\ Len(acc.children) - 1 = Len(acc.index_table_keys)
          /\ Len(acc.children) > BTREE_ORDER
               => Len(acc.children) >= 4 /\ Len(acc.index_table_keys) >= 3
    IN  /\ Route[0][FALSE]
        /\ written(insert_route([mem |-> mem, children |-> <<>>,
                                 index_table_keys |-> <<>>, guard |-> None],
                                pg, 0, table, key, value))

\* lookup_in_raw: key(i).unwrap() and child_page(i).unwrap() on the way down
RECURSIVE lookup_in_raw_ok(_, _, _, _)
lookup_in_raw_ok(mem, page, table, query) ==
  IF mem[page].tag = LEAF THEN TRUE
  ELSE
    LET pg == mem[page]
        Route[i \in 0..(BTREE_ORDER - 1)] ==
          IF i = BTREE_ORDER - 1
            THEN /\ IsSome(child_page(pg, i))
                 /\ lookup_in_raw_ok(mem, Unwrap(child_page(pg, i)), table, query)
          ELSE IF IsSome(internal_table_id(pg, i)) THEN
            /\ IsSome(internal_key(pg, i))
            /\ IF cmp_keys(table, query, Unwrap(internal_table_id(pg, i)),
                           Unwrap(internal_key(pg, i))) # Greater
                 THEN /\ IsSome(child_page(pg, i))
                      /\ lookup_in_raw_ok(mem, Unwrap(child_page(pg, i)), table, query)
                 ELSE Route[i + 1]
          ELSE /\ IsSome(child_page(pg, i))
               /\ lookup_in_raw_ok(mem, Unwrap(child_page(pg, i)), table, query)
    IN  mem[page].tag = INTERNAL /\ Route[0]

\* tree_height: its unreachable!() is a page that is neither LEAF nor INTERNAL
RECURSIVE tree_height_ok(_, _)
tree_height_ok(mem, page) ==
  \/ mem[page].tag = LEAF
  \/ /\ mem[page].tag = INTERNAL
     /\ \A i \in 0..(BTREE_ORDER - 1) :
          IsSome(child_page(mem[page], i))
            => tree_height_ok(mem, Unwrap(child_page(mem[page], i)))

\* One RangeIterState::next: child_page(child).unwrap() of an Internal frame
\* and, backwards, assert!(index > 0) on each internal page entered.
state_next_ok(mem, state) ==
  LET f == Head(state)
      enters_ok(page) ==
        mem[page].tag = INTERNAL /\ f.reversed => last_child_index(mem[page]) > 0
  IN  IF f.kind = "InitialState" THEN enters_ok(f.page)
      ELSE IF f.kind = "Internal"
        THEN /\ mem[f.page].tag = INTERNAL
             /\ IsSome(child_page(mem[f.page], f.child))
             /\ enters_ok(Unwrap(child_page(mem[f.page], f.child)))
      ELSE TRUE

\* Every transition of a pass from `state` to the end of the tree.
RECURSIVE pass_ok(_, _)
pass_ok(mem, state) ==
  /\ state_next_ok(mem, state)
  /\ state_next(mem, state) = <<>> \/ pass_ok(mem, state_next(mem, state))

\* C24: on every reachable tree no assertion, unwrap or unreachable fires in
\* tree_insert, tree_delete, lookup_in_raw or tree_height for any table, key
\* and value, nor in a pass of the range iterator in either direction.
C24_NoPanic ==
  root # 0 =>
    /\ tree_height_ok(pages, root)
    /\ \A t \in Tables, k \in Keys :
         /\ lookup_in_raw_ok(pages, root, t, k)
         /\ tree_delete_ok(pages, root, t, k)
         /\ \A v \in Values : tree_insert_helper_ok(pages, root, t, k, v)
    /\ \A reversed \in BOOLEAN : pass_ok(pages, <<InitialState(root, reversed)>>)

\* A tree left by a delete that took a level off a tree of height 3, the
\* delete having gone through the repair of an internal page without a
\* panic, and on which the next operations and passes are safe as well.
C24_Witness ==
  /\ last.op = "delete"
  /\ tree_height(pages, last.in_root) = 3
  /\ root # 0
  /\ tree_height(pages, root) = 2
  /\ tree_delete_ok(pages, last.in_root, last.table, last.key)
  /\ pass_ok(pages, <<InitialState(root, TRUE)>>)


\* C25: a tree_delete of a (table, key) that lookup does not find in the tree
\* allocates no page and writes none: the store after it is the store before.
C25_AbsentDeleteAllocatesNothing ==
  [][(/\ ops' = ops + 1
      /\ last'.op = "delete"
      /\ ~IsSome(LookupValue(pages, root, last'.table, last'.key)))
       => pages' = pages]_vars

\* A delete of an absent key that went down a tree of height 3.
C25_Witness ==
  /\ last.op = "delete"
  /\ ~Found(last.in_root, last.table, last.key)
  /\ tree_height(pages, last.in_root) = 3
  /\ Allocated = 0
  /\ root = last.in_root


\* The store as it was before the last operation.
Before == SubSeq(pages, 1, last.first - 1)

\* The helper of the last insert reported a split at the old root: it
\* returned a second page next to the first.
RootSplit ==
  IsSome(tree_insert_helper(Before, last.in_root, last.table, last.key, last.value).more)

\* The old root of the last insert was a full leaf holding neither entry
\* under the inserted key, or an internal page whose children, with those the
\* insert below it returned, came to four.
RootOverflow ==
  IF Before[last.in_root].tag = LEAF
    THEN /\ IsSome(leaf_greater(Before[last.in_root]))
         /\ ~IsSome(LookupValue(Before, last.in_root, last.table, last.key))
    ELSE Len(insert_route([mem |-> Before, children |-> <<>>,
                           index_table_keys |-> <<>>, guard |-> None],
                          Before[last.in_root], 0,
                          last.table, last.key, last.value).children) = 4

\* C26: tree_insert leaves tree_height as it was or raises it by one; it
\* raises it exactly when the helper reports a split at the old root, which
\* is when a full root leaf gets a third key or a root internal page comes to
\* four children, and then the new root is an internal page of two children.
C26_InsertHeightStep ==
  (last.op = "insert" /\ last.in_root # 0) =>
    LET h0 == tree_height(pages, last.in_root)
        h1 == tree_height(pages, root)
    IN  /\ h1 = h0 \/ h1 = h0 + 1
        /\ h1 = h0 + 1 <=> RootSplit
        /\ RootSplit <=> RootOverflow
        /\ RootSplit => /\ pages[root].tag = INTERNAL
                        /\ Len(present_children(pages[root])) = 2

\* An insert below an internal root of three leaves that split a leaf and
\* with it the root, leaving a tree of height 3 under a root of two children.
C26_Witness ==
  /\ last.op = "insert"
  /\ last.in_root # 0
  /\ pages[last.in_root].tag = INTERNAL
  /\ tree_height(pages, last.in_root) = 2
  /\ tree_height(pages, root) = 3
  /\ RootSplit
  /\ Len(present_children(pages[root])) = 2

\* What tree_delete_helper returned for the root in the last delete.
RootResult == tree_delete_helper(Before, last.in_root, last.table, last.key).res

\* C27: after a tree_delete with a non-empty result the height is not above
\* what it was; it is one less when the helper's result for the root is
\* PartialInternal([p]), p being the new root, and as it was otherwise.
C27_DeleteHeightStep ==
  (last.op = "delete" /\ IsSome(last.out)) =>
    LET h0 == tree_height(pages, last.in_root)
        h1 == tree_height(pages, root)
    IN  /\ h1 <= h0
        /\ RootResult.kind = "PartialInternal"
             => /\ Len(RootResult.pages) = 1
                /\ root = RootResult.pages[1]
                /\ h1 = h0 - 1
        /\ RootResult.kind = "Subtree" => root = RootResult.page /\ h1 = h0

\* A delete that took a tree of height 3 down to height 2, the two internal
\* pages below the root having been merged into the new root.
C27_Witness ==
  /\ last.op = "delete"
  /\ IsSome(last.out)
  /\ tree_height(pages, last.in_root) = 3
  /\ tree_height(pages, root) = 2
  /\ RootResult.kind = "PartialInternal"
  /\ TreeEntries(pages, root)
       = {e \in TreeEntries(pages, last.in_root) :
            ~(e.table = last.table /\ e.key = last.key)}


\* The pages tree_delete_helper is called on, from page down to the leaf the
\* routing by separators leads (table, key) to.
RECURSIVE DeletePath(_, _, _, _)
DeletePath(mem, page, table, key) ==
  IF mem[page].tag = LEAF THEN {page}
  ELSE
    LET pg == mem[page]
        Route[i \in 0..(BTREE_ORDER - 1)] ==
          IF i = BTREE_ORDER - 1 THEN Unwrap(child_page(pg, i))
          ELSE IF IsSome(internal_table_id(pg, i))
            THEN IF cmp_keys(table, key, Unwrap(internal_table_id(pg, i)),
                             Unwrap(internal_key(pg, i))) # Greater
                   THEN Unwrap(child_page(pg, i))
                   ELSE Route[i + 1]
            ELSE Unwrap(child_page(pg, i))
    IN  {page} \cup DeletePath(mem, Route[0], table, key)

\* The DeletionResults produced in tree_delete(rt, table, key), one for each
\* level of the descent.
Produced(mem, rt, table, key) ==
  {tree_delete_helper(mem, p, table, key).res : p \in DeletePath(mem, rt, table, key)}

\* C28: in every delete on a reachable tree each PartialLeaf produced carries
\* no entry and each PartialInternal produced carries exactly one page.
C28_PartialShapes ==
  root # 0 =>
    \A t \in Tables, k \in Keys :
      \A r \in Produced(pages, root, t, k) :
        /\ r.kind = "PartialLeaf" => r.entries = <<>>
        /\ r.kind = "PartialInternal" => Len(r.pages) = 1

\* A delete from a tree of height 3 in which the leaf came back as
\* PartialLeaf and the internal page above it as PartialInternal.
C28_Witness ==
  /\ last.op = "delete"
  /\ tree_height(pages, last.in_root) = 3
  /\ \E r \in Produced(Before, last.in_root, last.table, last.key) :
       r.kind = "PartialLeaf"
  /\ \E p \in DeletePath(Before, last.in_root, last.table, last.key) \ {last.in_root} :
       tree_delete_helper(Before, p, last.table, last.key).res.kind = "PartialInternal"


\* C29: once next() has returned None to the reader, the iterator's `last`
\* is None, and a later call, whatever the writer has done in between,
\* returns None again, leaves the iterator as it is and reads no page (it
\* returns the same on a store without any page).
C29_ExhaustionIsFinal ==
  (reader # None /\ Unwrap(reader).done) =>
    /\ Unwrap(reader).it.last = None
    /\ BtreeRangeIter_next(pages, Unwrap(reader).it)
         = [it |-> Unwrap(reader).it, entry |-> None]
    /\ BtreeRangeIter_next(<<>>, Unwrap(reader).it)
         = [it |-> Unwrap(reader).it, entry |-> None]

\* A forward iterator that stopped at the first entry past its end bound,
\* with entries of its table left beyond it, after which the writer has gone
\* on to insert.
C29_Witness ==
  /\ reader # None
  /\ Unwrap(reader).done
  /\ ~Unwrap(reader).it.reversed
  /\ Unwrap(reader).it.query_range.end.kind = "Included"
  /\ Len(Unwrap(reader).seen) >= 1
  /\ \E e \in Unwrap(reader).snap :
       /\ e.table = Unwrap(reader).it.table_id
       /\ KCompare(e.key, Unwrap(reader).it.query_range.end.key) = Greater
  /\ last.op = "insert"
  /\ root # Unwrap(reader).rt


\* ------------------------------------------------------ passes (claim C30)
\* The child slots of the internal pages of the tree, as <<page, slot>>.
ChildSlots(mem, rt) ==
  {ps \in InternalNodes(mem, rt) \X (0..(BTREE_ORDER - 1)) :
     IsSome(child_page(mem[ps[1]], ps[2]))}

\* The cursor states RangeIterState::next goes through from `state` until it
\* returns None, in order; cut after `fuel` states, with the empty state
\* put last to mark the cut.
RECURSIVE Pass(_, _, _)
Pass(mem, state, fuel) ==
  LET n == state_next(mem, state) IN
  IF n = <<>> THEN <<>>
  ELSE IF fuel = 0 THEN << <<>> >>
  ELSE <<n>> \o Pass(mem, n, fuel - 1)

\* The cursor the iterator holds after each call of next that returned an
\* entry, in order, until its first None.
RECURSIVE Cursors(_, _)
Cursors(mem, it) ==
  LET r == BtreeRangeIter_next(mem, it) IN
  IF IsSome(r.entry) THEN <<r.it.last>> \o Cursors(mem, r.it) ELSE <<>>

\* cs is found in ps from position `from` on, in order and without repeats.
RECURSIVE SubsequenceFrom(_, _, _)
SubsequenceFrom(cs, ps, from) ==
  IF cs = <<>> THEN TRUE
  ELSE LET at == {i \in from..Len(ps) : ps[i] = Head(cs)} IN
       /\ at # {}
       /\ SubsequenceFrom(Tail(cs), ps, (CHOOSE i \in at : \A j \in at : i <= j) + 1)

\* The number of states of a full pass after the initial one: two per leaf
\* and one per child slot.
PassLength(mem, rt) ==
  2 * Cardinality(LeafNodes(mem, rt)) + Cardinality(ChildSlots(mem, rt))

\* ps is one full pass in a direction: after the initial state it visits
\* each leaf once on its left and once on its right entry and each child
\* slot once, and nothing else, and then ends.
FullPass(mem, rt, reversed, ps) ==
  /\ Len(ps) = PassLength(mem, rt)
  /\ \A i \in 1..Len(ps) : ps[i] # <<>>
  /\ \A p \in LeafNodes(mem, rt) :
       /\ Cardinality({i \in 1..Len(ps) : Head(ps[i]) = LeafLeft(p, reversed)}) = 1
       /\ Cardinality({i \in 1..Len(ps) : Head(ps[i]) = LeafRight(p, reversed)}) = 1
  /\ \A c \in ChildSlots(mem, rt) :
       Cardinality({i \in 1..Len(ps) : Head(ps[i]) = Internal(c[1], c[2], reversed)}) = 1

\* The calls of next of one iterator walk the pass ps: the cursors cs it
\* holds after its yields are states of the pass, in the order of the pass,
\* and it yields at most n times.
WalksPass(cs, ps, n) ==
  /\ SubsequenceFrom(cs, ps, 1)
  /\ Len(cs) <= n

\* C30: on every reachable tree and in both directions, a full pass of the
\* cursor ends after one state per leaf side and one per child slot, entering
\* every leaf once and descending every child slot once; for every table and
\* range, the calls of next go through states of that pass in order, so each
\* returns after finitely many transitions, and the iterator returns None
\* after at most as many yields as the tree has entries.
C30_IteratorTerminates ==
  root # 0 =>
    \A reversed \in BOOLEAN :
      \E ps \in {Pass(pages, <<InitialState(root, reversed)>>, PassLength(pages, root))} :
      \E n \in {Cardinality(TreeEntries(pages, root))} :
        /\ FullPass(pages, root, reversed, ps)
        /\ \A t \in Tables, range \in Ranges :
             \E it \in {IF reversed THEN BtreeRangeIter_new_reversed(root, t, range)
                                    ELSE BtreeRangeIter_new(root, t, range)} :
               WalksPass(Cursors(pages, it), ps, n)

\* A tree of height 3 with an internal page of three children, left by an
\* insert, on which a bounded reversed iterator yields entries and stops
\* before the pass is over.
C30_Witness ==
  /\ root # 0
  /\ last.op = "insert"
  /\ tree_height(pages, root) = 3
  /\ \E p \in InternalNodes(pages, root) : Len(present_children(pages[p])) = 3
  /\ \E ps \in {Pass(pages, <<InitialState(root, TRUE)>>, PassLength(pages, root))} :
       /\ FullPass(pages, root, TRUE, ps)
       /\ \E t \in Tables :
            \E cs \in {Cursors(pages, BtreeRangeIter_new_reversed(
                                        root, t, Range(Included(<<2>>), Unbounded)))} :
              /\ Len(cs) >= 1
              /\ Len(cs) < Cardinality(TreeEntries(pages, root))
              /\ WalksPass(cs, ps, Cardinality(TreeEntries(pages, root)))

\* ------------------------------------------------------------- empty keys
\* The owner working with keys of any length, the zero-length key included.
\* A call in which an assert!, unwrap() or unreachable!() fires does not
\* return: the root stays what it was, what the call had written is
\* reachable from no root, and the owner makes no further call.
PanicOps == {"insert_panic", "delete_panic"}

Panicked(op, t, k, v) ==
  /\ last' = [op |-> op, table |-> t, key |-> k, value |-> v,
              in_root |-> root, first |-> Len(pages) + 1,
              guard |-> NoGuard, out |-> None]
  /\ UNCHANGED <<pages, root, kv>>

InsertKey(t, k, v) ==
  /\ ops < MaxOps
  /\ last.op \notin PanicOps
  /\ IF root = 0 \/ tree_insert_helper_ok(pages, root, t, k, v)
       THEN Becomes(DoInsert(Cur, t, k, v))
       ELSE Panicked("insert_panic", t, k, v)
  /\ ops' = ops + 1
  /\ UNCHANGED <<reader, compared>>

DeleteKey(t, k) ==
  /\ root # 0
  /\ ops < MaxOps
  /\ last.op \notin PanicOps
  /\ IF tree_delete_ok(pages, root, t, k)
       THEN Becomes(DoDelete(Cur, t, k))
       ELSE Panicked("delete_panic", t, k, <<>>)
  /\ ops' = ops + 1
  /\ UNCHANGED <<reader, compared>>

NextEmptyKey ==
  \/ \E t \in Tables, k \in KeysWithEmpty, v \in Values : InsertKey(t, k, v)
  \/ \E t \in Tables, k \in KeysWithEmpty : DeleteKey(t, k)

SpecEmptyKey == Init /\ [][NextEmptyKey]_vars

\* C31: with zero-length keys among the keys, no insert panics, lookup of the
\* inserted (table, key) in the returned root yields the inserted value, and
\* every other (table, key) lookup found in the input root is still found
\* with the same value.
C31_EmptyKeyOrdinary ==
  /\ last.op # "insert_panic"
  /\ last.op = "insert" =>
       /\ \A t \in Tables, k \in KeysWithEmpty : lookup_in_raw_ok(pages, root, t, k)
       /\ LookupValue(pages, root, last.table, last.key) = Some(last.value)
       /\ \A t \in Tables, k \in KeysWithEmpty :
            (<<t, k>> # <<last.table, last.key>>
               /\ IsSome(LookupValue(pages, last.in_root, t, k)))
              => LookupValue(pages, root, t, k) = LookupValue(pages, last.in_root, t, k)


\* -------------------------------------------------------- user comparator
\* A database with table 1, keyed by [u8], and table 3, whose key type
\* orders its keys by the reverse of the bytewise order.  It starts on what
\* inserts left behind (each a DoInsert from the empty store):
\*   SeedsReversed[1]: a root with the leaves [(1,1) (1,3)] [(3,3)] [(3,1)]
\*   SeedsReversed[2]: height 3, leaves [(1,1) (1,3)] [(3,3)] | [(3,2)] [(3,1)]
ComparatorTables == {1} \cup ReversedTables

SeedsReversed ==
  << << <<1, <<1>>>>, <<3, <<1>>>>, <<3, <<3>>>>, <<1, <<3>>>> >>,
     << <<1, <<1>>>>, <<3, <<1>>>>, <<3, <<2>>>>, <<3, <<3>>>>, <<1, <<3>>>> >> >>

InitComparator == \E i \in 1..Len(SeedsReversed) : StartsOn(Build(SeedsReversed[i]))

NextComparator ==
  \/ \E t \in ComparatorTables, k \in Keys, v \in Values : Insert(t, k, v)
  \/ \E t \in ComparatorTables, k \in Keys : Delete(t, k)

SpecComparator == InitComparator /\ [][NextComparator]_vars

\* The present children of every internal page under rt stand in strictly
\* ascending order of their maximum (table, key) under cmp_keys.
ChildrenAscending(mem, rt) ==
  \A p \in InternalNodes(mem, rt) :
    \A i \in 1..(Len(present_children(mem[p])) - 1) :
      cmp_keys(max_table_key(mem, present_children(mem[p])[i]).table,
               max_table_key(mem, present_children(mem[p])[i]).key,
               max_table_key(mem, present_children(mem[p])[i + 1]).table,
               max_table_key(mem, present_children(mem[p])[i + 1]).key) = Less

\* The separator invariant on every internal page under rt.
Separated(mem, rt) ==
  \A p \in InternalNodes(mem, rt) :
    \A n \in 0..(BTREE_ORDER - 2) :
      IsSome(internal_table_id(mem[p], n))
        => /\ \A e \in TreeEntries(mem, Unwrap(child_page(mem[p], n))) :
                cmp_keys(e.table, e.key, Unwrap(internal_table_id(mem[p], n)),
                         Unwrap(internal_key(mem[p], n))) # Greater
           /\ \A e \in TreeEntries(mem, Unwrap(child_page(mem[p], n + 1))) :
                cmp_keys(e.table, e.key, Unwrap(internal_table_id(mem[p], n)),
                         Unwrap(internal_key(mem[p], n))) = Greater

\* C32: with a table whose key comparator is a total order other than the
\* bytewise one, after every delete that leaves a tree the children of each
\* internal page are in ascending order of their maximum (table, key) under
\* the comparator, and the separator invariant holds.
C32_RepairUsesComparator ==
  (last.op = "delete" /\ root # 0) =>
    /\ ChildrenAscending(pages, root)
    /\ Separated(pages, root)


\* The child list and separators tree_insert_helper assembles at the
\* internal page `page` of the store mem for an insert of (table, key, value).
Assembled(mem, page, table, key, value) ==
  insert_route([mem |-> mem, children |-> <<>>, index_table_keys |-> <<>>,
                guard |-> None],
               mem[page], 0, table, key, value)

\* The pages r that tree_insert_helper returned for the assembled list acc
\* of four children are the two halves of acc: children 0 and 1 around
\* separator 0, children 2 and 3 around separator 2, and separator 1 handed
\* up and stored in neither.
SplitInHalves(acc, r) ==
  /\ IsSome(r.more)
  /\ r.mem[r.page1].tag = INTERNAL
  /\ present_children(r.mem[r.page1]) = <<acc.children[1], acc.children[2]>>
  /\ internal_table_id(r.mem[r.page1], 0) = Some(acc.index_table_keys[1].table)
  /\ internal_key(r.mem[r.page1], 0) = Some(acc.index_table_keys[1].key)
  /\ internal_key(r.mem[r.page1], 1) = None
  /\ r.mem[Unwrap(r.more).page].tag = INTERNAL
  /\ present_children(r.mem[Unwrap(r.more).page]) = <<acc.children[3], acc.children[4]>>
  /\ internal_table_id(r.mem[Unwrap(r.more).page], 0) = Some(acc.index_table_keys[3].table)
  /\ internal_key(r.mem[Unwrap(r.more).page], 0) = Some(acc.index_table_keys[3].key)
  /\ internal_key(r.mem[Unwrap(r.more).page], 1) = None
  /\ Unwrap(r.more).table = acc.index_table_keys[2].table
  /\ Unwrap(r.more).key = acc.index_table_keys[2].key
  /\ \A h \in {r.page1, Unwrap(r.more).page} :
       <<Unwrap(internal_table_id(r.mem[h], 0)), Unwrap(internal_key(r.mem[h], 0))>>
         # <<acc.index_table_keys[2].table, acc.index_table_keys[2].key>>

\* C33: for every internal page of a reachable tree and every insert whose
\* assembled child list there has 4 children, tree_insert_helper writes two
\* internal pages, the first with children 0 and 1 and separator 0, the
\* second with children 2 and 3 and separator 2, and reports separator 1
\* with the second page; separator 1 is stored in neither page.
C33_InternalSplit ==
  \A p \in InternalNodes(pages, root) :
    \A t \in Tables, k \in Keys, v \in Values :
      Len(Assembled(pages, p, t, k, v).children) = 4
        => SplitInHalves(Assembled(pages, p, t, k, v),
                         tree_insert_helper(pages, p, t, k, v))

\* The last insert split the internal root of a tree of height 2: the new
\* root stands over the two halves, with the reported separator between.
C33_Witness ==
  /\ last.op = "insert"
  /\ last.in_root # 0
  /\ Before[last.in_root].tag = INTERNAL
  /\ Len(Assembled(Before, last.in_root, last.table, last.key, last.value).children) = 4
  /\ SplitInHalves(Assembled(Before, last.in_root, last.table, last.key, last.value),
                   tree_insert_helper(Before, last.in_root, last.table, last.key, last.value))
  /\ Len(present_children(pages[root])) = 2
  /\ internal_key(pages[root], 0)
       = Some(Assembled(Before, last.in_root, last.table, last.key, last.value).index_table_keys[2].key)


\* The position, in the child list `old` of an internal page, of the child
\* tree_insert_helper recursed into, read off the child list `new` it
\* assembled in a store that had n pages: the pages of the recursion's
\* result stand in the place of the child, page1 (which may be the child
\* itself, left untouched) and, when the lists differ in length, page2, the
\* last page in `new` allocated past n.
ReplacedAt(old, new, n) ==
  LET m == CHOOSE j \in 1..Len(new) :
             /\ new[j] > n
             /\ \A i \in (j + 1)..Len(new) : new[i] <= n
  IN  IF Len(new) > Len(old) THEN m - 1 ELSE m

\* Every other child is carried over under its page number, in its place.
OthersCarried(old, new, at) ==
  /\ SubSeq(new, 1, at - 1) = SubSeq(old, 1, at - 1)
  /\ SubSeq(new, at + 1 + Len(new) - Len(old), Len(new)) = SubSeq(old, at + 1, Len(old))

\* The child of the internal page `page` that tree_insert_helper recursed
\* into for (table, key, value).
InsertChild(mem, page, table, key, value) ==
  present_children(mem[page])[ReplacedAt(present_children(mem[page]),
                                         Assembled(mem, page, table, key, value).children,
                                         Len(mem))]

\* The pages tree_insert_helper is called on, from page down to a leaf.
RECURSIVE InsertPath(_, _, _, _, _)
InsertPath(mem, page, table, key, value) ==
  IF mem[page].tag = LEAF THEN {page}
  ELSE {page} \cup InsertPath(mem, InsertChild(mem, page, table, key, value),
                              table, key, value)

\* C34: after a tree_insert, every page of the tree it was applied to that
\* is not on the path of pages the helper was called on is reachable from
\* the new root under its page number, with the content it had, and the
\* insert allocated at most two pages per page of the path and one more.
C34_StructuralSharing ==
  (last.op = "insert" /\ last.in_root # 0) =>
    /\ \A p \in Reach(Before, last.in_root)
                  \ InsertPath(Before, last.in_root, last.table, last.key, last.value) :
         /\ p \in Reach(pages, root)
         /\ pages[p] = Before[p]
    /\ Allocated
         <= 2 * Cardinality(InsertPath(Before, last.in_root,
                                       last.table, last.key, last.value)) + 1

\* An insert into a tree of height 3 that split a leaf and left the other
\* subtree of the root, with its leaves, shared by the old and the new root.
C34_Witness ==
  /\ last.op = "insert"
  /\ last.in_root # 0
  /\ tree_height(Before, last.in_root) = 3
  /\ Cardinality(InsertPath(Before, last.in_root, last.table, last.key, last.value)) = 3
  /\ Allocated > 3
  /\ \E p \in InternalNodes(Before, last.in_root) :
       /\ p # last.in_root
       /\ p \in Reach(pages, root)
  /\ Cardinality(Reach(Before, last.in_root) \cap Reach(pages, root)) >= 3


\* ---------------------------------------------------------------- routing
\* The internal page pg as page BTREE_ORDER + 1 of a store of its own, with
\* child slot n pointing to page n + 1 and every such page a leaf holding
\* (table, key) alone: whichever child an operation on (table, key) recurses
\* into, it finds the key there, and its result tells which slot that was.
ProbePage == BTREE_ORDER + 1
Probed(pg, table, key) ==
  [n \in 1..BTREE_ORDER |-> BuildLeaf(Entry(table, key, <<1>>), None)]
    \o <<[pg EXCEPT !.child = [n \in 1..BTREE_ORDER |-> n]]>>

\* The child list of the page in its probe store.
ProbeChildren(pg) == [n \in 1..Len(present_children(pg)) |-> n]

\* The page lookup_in_raw found the key on.
LookupSlot(mem, table, key) ==
  Unwrap(lookup_in_raw(mem, ProbePage, table, key)).page

\* The results tree_delete_helper collects for the children of the page.
DeleteResults(mem, table, key) ==
  delete_route([mem |-> mem, children |-> <<>>, found |-> FALSE, unchanged |-> FALSE],
               mem[ProbePage], 0, table, key).children

\* tree_delete_helper recursed into child c and into no other: the result
\* for c is not c itself as a Subtree, the result for every other child is.
DeletesFrom(results, children, c) ==
  /\ Len(results) = Len(children)
  /\ \A i \in 1..Len(children) : (results[i] = Subtree(children[i])) <=> (children[i] # c)

\* tree_insert_helper recursed into the child c of the page and into no
\* other: its results stand in the place of c and every other child is
\* carried over.
InsertsInto(old, new, n, c) ==
  /\ old[ReplacedAt(old, new, n)] = c
  /\ OthersCarried(old, new, ReplacedAt(old, new, n))

\* The routing rule: slot i for the first present separator i with
\* (table, key) <= separator i, the last present child when there is none.
RuleSlot(pg, table, key) ==
  LET at == {i \in 0..(BTREE_ORDER - 2) :
               /\ \A j \in 0..i : IsSome(internal_table_id(pg, j))
               /\ cmp_keys(table, key, Unwrap(internal_table_id(pg, i)),
                           Unwrap(internal_key(pg, i))) # Greater}
  IN  IF at = {} THEN Len(present_children(pg)) - 1
      ELSE CHOOSE i \in at : \A j \in at : i <= j

\* The three operations on (table, key) at the page pg, each over the probe
\* store, go to the child in slot `slot` and to no other.
RoutedTo(pg, mem, table, key, slot) ==
  /\ LookupSlot(mem, table, key) = slot + 1
  /\ DeletesFrom(DeleteResults(mem, table, key), ProbeChildren(pg), slot + 1)
  /\ \A v \in Values :
       InsertsInto(ProbeChildren(pg), Assembled(mem, ProbePage, table, key, v).children,
                   Len(mem), slot + 1)

\* C35: at every internal page of a reachable tree and for every (table,
\* key), lookup_in_raw, tree_insert_helper and tree_delete_helper each recurse
\* into one child, the same for the three: the child in the slot the routing
\* rule names; an insert on the tree itself goes to that child as well.
C35_SameRouting ==
  \A p \in InternalNodes(pages, root) :
    \A t \in Tables, k \in Keys :
      /\ \E mem \in {Probed(pages[p], t, k)} :
           RoutedTo(pages[p], mem, t, k, RuleSlot(pages[p], t, k))
      /\ \A v \in Values :
           InsertsInto(present_children(pages[p]),
                       Assembled(pages, p, t, k, v).children,
                       Len(pages),
                       Unwrap(child_page(pages[p], RuleSlot(pages[p], t, k))))

\* An internal page of three children below the root of a tree left by an
\* operation, at which the three operations go to the middle child for one
\* key and to the last child for another.
C35_Witness ==
  /\ last.op \in {"insert", "delete"}
  /\ \E p \in InternalNodes(pages, root) :
       /\ p # root
       /\ Len(present_children(pages[p])) = 3
       /\ \E t \in Tables, k \in Keys :
            /\ RuleSlot(pages[p], t, k) = 1
            /\ RoutedTo(pages[p], Probed(pages[p], t, k), t, k, 1)
       /\ \E t \in Tables, k \in Keys :
            /\ RuleSlot(pages[p], t, k) = 2
            /\ RoutedTo(pages[p], Probed(pages[p], t, k), t, k, 2)


\* -------------------------------------------------------------- cmp_keys
\* cmp_keys and EntryAccessor::compare as functions of their arguments: a
\* behaviour picks two (table, key) pairs, table ids from 0 up (u64) with
\* tables of both key types among them, keys of any length, and the call
\* returns.
CmpTables == {0} \cup Tables \cup ReversedTables

InitCmp ==
  /\ pages = <<>>
  /\ root = 0
  /\ ops = 0
  /\ last = NoOp
  /\ kv = Empty.kv
  /\ reader = None
  /\ \E t1 \in CmpTables, k1 \in KeysWithEmpty, t2 \in CmpTables, k2 \in KeysWithEmpty :
       compared = Some([table1 |-> t1, key1 |-> k1, table2 |-> t2, key2 |-> k2,
                        out |-> None, entry_out |-> None])

CmpKeys ==
  /\ IsSome(compared)
  /\ Unwrap(compared).out = None
  /\ compared' =
       Some([Unwrap(compared) EXCEPT
               !.out = Some(cmp_keys(Unwrap(compared).table1, Unwrap(compared).key1,
                                     Unwrap(compared).table2, Unwrap(compared).key2)),
               !.entry_out =
                  Some(entry_compare(Entry(Unwrap(compared).table1,
                                           Unwrap(compared).key1, <<1>>),
                                     Unwrap(compared).table2, Unwrap(compared).key2))])
  /\ UNCHANGED <<pages, root, ops, last, kv, reader>>

NextCmp == CmpKeys

SpecCmp == InitCmp /\ [][NextCmp]_vars

\* The relation cmp_keys defines on the (table, key) pairs, seen from the
\* pair a against the pair b: b against a gives the converse, Equal is
\* identity, and the order passes through every third pair c.
TotalOrderAt(a, b) ==
  /\ cmp_keys(b[1], b[2], a[1], a[2]) = 0 - cmp_keys(a[1], a[2], b[1], b[2])
  /\ (cmp_keys(a[1], a[2], b[1], b[2]) = Equal) <=> (a = b)
  /\ \A c \in CmpTables \X KeysWithEmpty :
       (cmp_keys(a[1], a[2], b[1], b[2]) # Greater /\ cmp_keys(b[1], b[2], c[1], c[2]) # Greater)
         => cmp_keys(a[1], a[2], c[1], c[2]) # Greater

\* C36: cmp_keys returns the order of the table ids when they differ and
\* K::compare of the keys when they are equal, EntryAccessor::compare is
\* cmp_keys of the entry's table and key, and the relation is a total order
\* on the (table, key) pairs, for the bytewise key order and for another
\* total order of the key type.
C36_TableMajorOrder ==
  (IsSome(compared) /\ IsSome(Unwrap(compared).out)) =>
    /\ Unwrap(compared).table1 < Unwrap(compared).table2
         => Unwrap(compared).out = Some(Less)
    /\ Unwrap(compared).table1 > Unwrap(compared).table2
         => Unwrap(compared).out = Some(Greater)
    /\ Unwrap(compared).table1 = Unwrap(compared).table2
         => Unwrap(compared).out
              = Some(KCompareOf(Unwrap(compared).table1,
                                Unwrap(compared).key1, Unwrap(compared).key2))
    /\ Unwrap(compared).entry_out = Unwrap(compared).out
    /\ TotalOrderAt(<<Unwrap(compared).table1, Unwrap(compared).key1>>,
                    <<Unwrap(compared).table2, Unwrap(compared).key2>>)

\* A call that returned Less for a lower table id with the bytewise greater
\* key.
C36_Witness ==
  /\ IsSome(compared)
  /\ Unwrap(compared).out = Some(Less)
  /\ Unwrap(compared).table1 < Unwrap(compared).table2
  /\ bytes_cmp(Unwrap(compared).key1, Unwrap(compared).key2) = Greater


\* ------------------------------------------------------ the subtree maximum
\* The (table, key) pairs of the entries stored under page rt.
StoredKeys(mem, rt) ==
  {[table |-> e.table, key |-> e.key] : e \in TreeEntries(mem, rt)}

\* m is the greatest pair of the set S in the (table, key) order.
GreatestOf(S, m) ==
  /\ m \in S
  /\ \A e \in S : cmp_keys(e.table, e.key, m.table, m.key) # Greater

\* C37: for every page that roots a subtree of the tree, max_table_key (the
\* rightmost descent, then the greater entry if present, else the lesser)
\* returns the greatest (table, key) stored anywhere under that page, in the
\* order of cmp_keys.
C37_SubtreeMaximum ==
  \A p \in Reach(pages, root) :
    GreatestOf(StoredKeys(pages, p), max_table_key(pages, p))

====
